---- MODULE Spec2Model ----
(***************************************************************************)
(* Model of adtui's ConnectionManager                                      *)
(* (src/adtui/services/connection_manager.py): the connection state        *)
(* machine, the reconnect and health-check timers, get_connection,         *)
(* execute_with_retry and close, with every thread (the UI callers and     *)
(* each threading.Timer) advancing one shared access at a time.            *)
(***************************************************************************)
EXTENDS Integers, Sequences, FiniteSets, TLC

\* ------------------------------------------------------------------ bounds
\* number of application threads calling into the manager (thread 1 also
\* constructs it)
NumCallers == 1
\* health-check runs and reconnect attempts that can be in progress at one
\* time (each runs on the thread of the threading.Timer that fired)
MaxHealthThreads == 1
MaxReconnectThreads == 1
\* reconnect timers that can be waiting at one time
MaxPending == 2
\* waiting health-check timers that _health_check_timer no longer names
MaxOrphans == 1
\* max_retries given to the constructor (the default is 5)
MaxRetries == 2
\* polls of get_connection's wait loop (the code polls 50 times)
MaxPolls == 1

\* the retry parameters given to the constructor when the backoff delays are
\* followed: initial_retry_delay in 1..MaxInitialDelay, max_retry_delay in
\* 1..MaxDelayCap, max_retries BackoffRetries
MaxInitialDelay == 3
MaxDelayCap == 9
BackoffRetries == 5
\* registered state-change callbacks when callbacks may raise
MaxCallbacks == 2
\* organizational units below the base DN
NumDns == 2
\* children of the node a DN is removed from
MaxSiblings == 3
\* entries a search returns, and the letters their names start with
MaxEntries == 2
NumLetters == 2
\* timer callbacks followed in a scenario
MaxEvents == 5
\* words of a message given to the classifier
MaxWords == 2
\* threads inside _set_state at a time, and transitions followed
NumNotifiers == 2
MaxTransitions == 2
\* objects of the unit whose children are followed, populate threads beside
\* the user interface's, and handlers run
NumObjects == 2
MaxWorkers == 1
MaxHandlers == 4

\* ------------------------------------------------------- program constants
MaxOperationRetries == 3
InitialRetryDelay == 1
MaxRetryDelay == 60

Callers == 1..NumCallers
HealthThreads == (NumCallers + 1)..(NumCallers + MaxHealthThreads)
ReconnectThreads ==
  (NumCallers + MaxHealthThreads + 1)..(NumCallers + MaxHealthThreads + MaxReconnectThreads)
Timers == HealthThreads \cup ReconnectThreads
Threads == Callers \cup Timers
Main == 1

\* ConnectionState
DISCONNECTED == "disconnected"
CONNECTING == "connecting"
CONNECTED == "connected"
RECONNECTING == "reconnecting"
FAILED == "failed"
ConnectionState == {DISCONNECTED, CONNECTING, CONNECTED, RECONNECTING, FAILED}

\* the connection handle: None, or the handle a bind returned
NoConn == "none"
Handle == "handle"
\* _health_check_timer: None, a Timer that is waiting for its interval to
\* elapse, or a Timer that has fired or was cancelled (cancel() on it does
\* nothing)
NoTimer == "none"
WaitingTimer == "waiting"
StaleTimer == "stale"

\* ------------------------------------------------------------ error texts
\* A message is a sequence of words.
NoMsg == << >>
TimeoutMsg == <<"socket", "timeout">>
BusyMsg == <<"server", "busy">>
CredMsg == <<"automatic", "bind", "not", "successful", "-", "invalidCredentials">>
BindErrors == {TimeoutMsg, CredMsg}
OpErrors == {TimeoutMsg, BusyMsg, CredMsg}

ConnectPrefix == <<"Failed", "to", "connect:">>
ReconnectPrefix == <<"Reconnection", "failed:">>
AuthPrefix == <<"Authentication", "failed:">>
NoConnectionMsg == <<"No", "connection", "available">>

\* str.lower() on one word
Lower(w) ==
  CASE w = "invalidCredentials" -> "invalidcredentials"
    [] w = "Failed" -> "failed"
    [] w = "Reconnection" -> "reconnection"
    [] w = "Authentication" -> "authentication"
    [] w = "No" -> "no"
    [] w = "Invalid" -> "invalid"
    [] w = "Code" -> "code"
    [] OTHER -> w

LowerMsg(m) == [i \in 1..Len(m) |-> Lower(m[i])]

\* `sub in m` on word sequences
Contains(sub, m) ==
  \E i \in 0..(Len(m) - Len(sub)) :
    \A j \in 1..Len(sub) : m[i + j] = sub[j]

\* The characters of a word that is a number; any other word is kept whole,
\* for it has no digit in it.
Chars(w) ==
  CASE w = "49" -> <<"4", "9">>
    [] w = "1049" -> <<"1", "0", "4", "9">>
    [] w = "389" -> <<"3", "8", "9">>
    [] OTHER -> <<w>>

auth_indicators ==
  { <<"invalid", "credentials">>,
    <<"invalidcredentials">>,
    <<"automatic", "bind", "not", "successful", "-", "invalidcredentials">>,
    <<"authentication", "failed">>,
    <<"bind", "failed">>,
    <<"access", "denied">>,
    <<"login", "failed">>,
    <<"unauthorized">>,
    <<"invalid", "username">>,
    <<"invalid", "password">> }

\* a classifier that takes no error for a credential failure
IsAuthNever(m) == FALSE

\* _is_authentication_error (lines 166-201)
IsAuthenticationError(m) ==
  /\ m # NoMsg
  /\ \/ \E ind \in auth_indicators : Contains(ind, LowerMsg(m))
     \/ \E i \in 1..Len(m) : Contains(<<"4", "9">>, Chars(m[i]))
     \/ Contains(<<"code", "49">>, LowerMsg(m))

Min(a, b) == IF a < b THEN a ELSE b

RECURSIVE Pow2(_)
Pow2(n) == IF n = 0 THEN 1 ELSE 2 * Pow2(n - 1)

\* a delay that is not capped
DelayUncapped(initial, rc, maxDelay) == initial * Pow2(rc)

\* delay = min(initial_retry_delay * 2 ** retry_count, max_retry_delay), for
\* the parameters the constructor was given
Delay(initial, rc, maxDelay) == Min(initial * Pow2(rc), maxDelay)

\* the same with the parameters of the manager whose threads are followed
BackoffDelay(rc) == Delay(InitialRetryDelay, rc, MaxRetryDelay)

\* the error texts _set_state is given, by the place that builds them
NoError == "none"
ConnectFailed == "Failed to connect: ..."
ReconnectingIn == "Reconnecting in ...s (attempt .../...)"
MaxRetriesExceeded == "Max retries (...) exceeded"
ConnectionLost == "Connection lost, attempting to reconnect"

\* ------------------------------------------------------------------- state
VARIABLES
  state,             \* _state
  lastError,         \* _last_error
  retryCount,        \* _retry_count
  connection,        \* _connection
  connLock,          \* owner of _connection_lock, 0 when free
  stopHealthCheck,   \* _stop_health_check (threading.Event)
  healthCheckTimer,  \* _health_check_timer
  orphanHealth,      \* waiting health-check timers _health_check_timer no
                     \* longer names
  pendingReconnect,  \* waiting reconnect timers
  stateCallbacks,    \* number of registered state-change callbacks
  authCallback,      \* _auth_failure_callback is set
  pc,                \* each thread's position
  stack,             \* each thread's return addresses
  loc,               \* each thread's local variables
  authReported,      \* ghost: the auth-failure callback has been invoked
  closed,            \* ghost: "no", "called" or "returned" (close())
  streak,            \* ghost: consecutive transient bind/probe failures, or
                     \* -1 when the run does not limit them
  backoff            \* a manager's retry parameters, _retry_count and the
                     \* delays it computed, when failures follow one another
                     \* on one thread (NoBackoff in the other runs)
  ,notify            \* one thread's calls of _set_state and
                     \* _trigger_auth_failure with callbacks that may raise
                     \* (NoNotify in the other runs)
  ,tree              \* the ADTree widget: its nodes, loaded_ous, ou_cache and
                     \* the populate calls in progress (NoTree in the other
                     \* runs)
  ,removal           \* one call of remove_node_by_dn: the children of a node,
                     \* the cursor, the DN given and what was returned
  ,listing           \* one population of a node: the entries the two
                     \* searches returned and the children shown
  ,message           \* one call of _is_authentication_error: the message
                     \* and the verdict
  ,scenario          \* one manager followed on its own from Connected: its
                     \* state, _retry_count, the delays it scheduled and what
                     \* a subscriber was told
  ,order             \* threads inside _set_state: the state lock, the state
                     \* assigned and what each callback was called with
  ,kids              \* one unit of the tree: its objects in the directory,
                     \* its entry in ou_cache, its children on the screen

timers == <<healthCheckTimer, orphanHealth, pendingReconnect>>
mgr == <<state, lastError, retryCount, connection, connLock, stopHealthCheck,
         timers, stateCallbacks, authCallback>>
ghost == <<authReported, closed, streak>>
\* what no step of the threads of the connection manager changes
\* functions and scenarios followed on their own
apart == <<removal, listing, message, scenario, order, kids>>
others == <<backoff, notify, tree, apart>>
vars == <<mgr, pc, stack, loc, ghost, others>>

\* conn, retries, poll, delay and lastErr are the code's locals (conn,
\* operation_retry_count, the loop index, delay, e); the rest is ghost state
\* of the call
\* in progress: op's invocations, the callback's invocations,
\* get_connection having returned None, how the call ended, a reconnect's
\* bind having succeeded after close() returned, and a health check having
\* begun after the auth-failure callback was invoked
NoLocals ==
  [ conn |-> NoConn, retries |-> 0, poll |-> 0, delay |-> 0,
    lastErr |-> NoMsg,
    opCalls |-> 0, cbCalls |-> 0, gotNone |-> FALSE,
    result |-> "none", raised |-> NoMsg, late |-> FALSE, sinceAuth |-> FALSE ]

\* no delay computed yet
NoDelay == -1
NoBackoff == [ initial |-> 0, maxDelay |-> 0, rc |-> 0, delay |-> NoDelay, prev |-> NoDelay ]

\* what a callback does when it is invoked
Returns == "returns"
Raises == "raises"
CallbackBehaviours == {Returns, Raises}
NoCallback == "unset"
NoNotify ==
  [ callbacks |-> << >>, authCb |-> NoCallback, target |-> DISCONNECTED,
    i |-> 0, invoked |-> {}, pos |-> "off", authRaised |-> FALSE ]

\* the DNs of the nodes of the tree (node.data)
Dns == 1..NumDns

\* a call of populate_ou or _populate_ou_fresh: where it is, who runs it
\* ("expand" on a thread of its own, "ensure" and "fresh" on the thread of
\* the user interface), for which DN, and operation_retry_count of its
\* execute_with_retry; then its history: the calls of execute_with_retry
\* with the populate operation it has made, and, for a call on the thread
\* of the user interface, whether the DN was in ou_cache and in loaded_ous
\* when the handler that made the call began
NoJob ==
  [ pos |-> "none", kind |-> "none", dn |-> 0, retries |-> 0,
    calls |-> 0, wasCached |-> FALSE, wasLoaded |-> FALSE ]

\* fetched and again are the history of each DN since its last refresh: how
\* the fetch of its first expansion ended ("none", "running", "ok",
\* "failed", "noconn"), and that it was expanded again afterwards
NoTree ==
  [ nodes |-> {}, loaded |-> {}, cache |-> {},
    job |-> [d \in Dns |-> NoJob], ui |-> NoJob,
    fetched |-> [d \in Dns |-> "none"], again |-> [d \in Dns |-> FALSE] ]

\* the node above the children that remove_node_by_dn looks at, and no node
Parent == 0
NoNode == -1
NoRemoval ==
  [ siblings |-> << >>, cursor |-> NoNode, dn |-> NoNode, before |-> << >>,
    cursorBefore |-> NoNode, returned |-> "none" ]

NoListing ==
  [ containers |-> << >>, objects |-> << >>, cached |-> FALSE, cache |-> << >>,
    children |-> << >>, shown |-> "none" ]

NoVerdict == [ text |-> << >>, verdict |-> "none" ]

NoScenario ==
  [ state |-> "disconnected", rc |-> 0, timers |-> 0, health |-> FALSE,
    handle |-> FALSE, maxRetries |-> 0, initial |-> 0, maxDelay |-> 0,
    delays |-> << >>, told |-> << >>, outcomes |-> << >> ]

\* the threads that call _set_state side by side
Notifiers == 1..NumNotifiers
NoOrder ==
  [ callbacks |-> 0, lock |-> 0, state |-> DISCONNECTED, error |-> NoError,
    assigned |-> << >>, delivered |-> << >>,
    th |-> [t \in Notifiers |-> [ pos |-> "idle", new |-> DISCONNECTED,
                                  err |-> NoError, i |-> 0, calls |-> << >> ]] ]

\* a call of populate_ou or _populate_ou_fresh for the unit: where it is,
\* the objects it has still to add, whether the node it was given is still
\* the unit's node in the tree, and operation_retry_count
NoPopulate == [ pos |-> "none", todo |-> << >>, onNode |-> FALSE, tries |-> 0 ]

\* the threads that populate: the thread of the user interface and the
\* threads on_tree_node_expanded starts
UiThread == 0
Populators == 0..MaxWorkers

\* present: the unit has a node; loaded, cached, cache: its DN in
\* loaded_ous and ou_cache; shown: the leaves below its node; then the
\* history: the DNs remove_node_by_dn removed that no search has returned
\* since, the last handler that ran, whether populate was called for the
\* present node, and how many handlers ran
NoKids ==
  [ server |-> {}, present |-> FALSE, loaded |-> FALSE, cached |-> FALSE,
    cache |-> << >>, shown |-> << >>, removed |-> {}, last |-> "none",
    attempted |-> FALSE, handled |-> 0,
    job |-> [w \in Populators |-> NoPopulate] ]

\* ----------------------------------------------------------------- helpers
Home(t) == IF t \in Callers THEN "idle" ELSE "free"

\* waiting health-check timers
HealthPending == orphanHealth + (IF healthCheckTimer = WaitingTimer THEN 1 ELSE 0)

\* self._health_check_timer = threading.Timer(...); .start(): a timer the
\* attribute named before keeps waiting
CanArmHealth == healthCheckTimer = WaitingTimer => orphanHealth < MaxOrphans
OrphansAfterArm == IF healthCheckTimer = WaitingTimer THEN orphanHealth + 1 ELSE orphanHealth

\* `return` of the function a thread is in
PcAfterReturn(t) == IF stack[t] = << >> THEN Home(t) ELSE Head(stack[t])
StackAfterReturn(t) == IF stack[t] = << >> THEN << >> ELSE Tail(stack[t])
LocAfterReturn(t, l) == IF stack[t] = << >> /\ t \in Timers THEN NoLocals ELSE l

\* the application is set up: the callbacks are registered (adtui.py 170-237)
Ready == pc[Main] \notin {"new", "constructed", "cb_set"}

\* a manager that gives up at the first failure
GiveUpAtOnce(rc) == rc >= 0

\* line 233: self._retry_count >= self.max_retries
RetriesExhausted(rc) == rc >= MaxRetries

\* a retry loop that stops one attempt early
ExhaustedOneEarly(n) == n >= MaxOperationRetries - 1

\* line 413: operation_retry_count >= max_operation_retries
OperationRetriesExhausted(n) == n >= MaxOperationRetries

\* a retry loop that goes on without a connection
NeverNoConnection(c) == FALSE

\* line 396: `if not conn`
NoConnectionAvailable(c) == c = NoConn

\* _trigger_auth_failure: the callback runs only if one is set
Triggered == authReported \/ authCallback

StreakAfter(ok) == IF streak < 0 THEN streak ELSE IF ok THEN 0 ELSE Min(streak + 1, MaxRetries)

\* the outcomes the directory client can produce: NoMsg is success
BindOutcomes == {NoMsg} \cup BindErrors
UnbindOutcomes == {NoMsg, TimeoutMsg}
ProbeOutcomes == {TRUE, FALSE}
OpOutcomes == {NoMsg} \cup OpErrors
\* the same, with fewer than max_retries consecutive transient failures and
\* no credential failure
FewTransient == streak + 1 < MaxRetries
BindOutcomesFew == IF FewTransient THEN {NoMsg, TimeoutMsg} ELSE {NoMsg}
ProbeOutcomesFew == IF FewTransient THEN {TRUE, FALSE} ELSE {TRUE}
OpOutcomesFew == {NoMsg, TimeoutMsg, BusyMsg}

\* the manager before its constructor has run
Fresh ==
  /\ state = DISCONNECTED
  /\ lastError = NoError
  /\ retryCount = 0
  /\ connection = NoConn
  /\ connLock = 0
  /\ stopHealthCheck = FALSE
  /\ healthCheckTimer = NoTimer
  /\ orphanHealth = 0
  /\ pendingReconnect = 0
  /\ stateCallbacks = 0
  /\ authCallback = FALSE
  /\ pc = [t \in Threads |-> IF t = Main THEN "new" ELSE Home(t)]
  /\ stack = [t \in Threads |-> << >>]
  /\ loc = [t \in Threads |-> NoLocals]
  /\ authReported = FALSE
  /\ closed = "no"

\* nothing but the connection manager's threads is followed
ApartIdle ==
  /\ removal = NoRemoval
  /\ listing = NoListing
  /\ message = NoVerdict
  /\ scenario = NoScenario
  /\ order = NoOrder
  /\ kids = NoKids

OnlyManager == backoff = NoBackoff /\ notify = NoNotify /\ tree = NoTree /\ ApartIdle

Init == Fresh /\ streak = -1 /\ OnlyManager

\* ------------------------------------------------ __init__ and _connect
\* The constructor runs _connect before any other thread exists: the timer
\* it starts is its last statement, so the whole call is one step.
Connect(t, outcomes) ==
  /\ t = Main
  /\ pc[t] = "new"
  /\ \E o \in outcomes :
       LET msg == ConnectPrefix \o o IN
       IF o = NoMsg
       THEN /\ state' = CONNECTED
            /\ lastError' = NoError
            /\ connection' = Handle
            /\ retryCount' = 0
            /\ healthCheckTimer' = WaitingTimer
            /\ streak' = StreakAfter(TRUE)
            /\ UNCHANGED <<authReported, pendingReconnect>>
       ELSE IF IsAuthenticationError(msg)
       THEN /\ state' = FAILED
            /\ lastError' = ConnectFailed
            /\ authReported' = Triggered
            /\ UNCHANGED <<connection, retryCount, healthCheckTimer, pendingReconnect, streak>>
       ELSE IF RetriesExhausted(retryCount)
       THEN /\ state' = FAILED
            /\ lastError' = MaxRetriesExceeded
            /\ streak' = StreakAfter(FALSE)
            /\ UNCHANGED <<connection, retryCount, healthCheckTimer, pendingReconnect, authReported>>
       ELSE /\ state' = RECONNECTING
            /\ lastError' = ReconnectingIn
            /\ retryCount' = retryCount + 1
            /\ pendingReconnect' = pendingReconnect + 1
            /\ streak' = StreakAfter(FALSE)
            /\ UNCHANGED <<connection, healthCheckTimer, authReported>>
  /\ pc' = [pc EXCEPT ![t] = "constructed"]
  /\ UNCHANGED <<connLock, stopHealthCheck, orphanHealth, stateCallbacks, authCallback,
                 stack, loc, closed, others>>

\* adtui.py 175: set_auth_failure_callback, right after the constructor
SetAuthFailureCallback(t) ==
  /\ t = Main
  /\ pc[t] = "constructed"
  /\ authCallback' = TRUE
  /\ pc' = [pc EXCEPT ![t] = "cb_set"]
  /\ UNCHANGED <<state, lastError, retryCount, connection, connLock,
                 stopHealthCheck, timers, stateCallbacks, stack, loc, ghost, others>>

\* adtui.py 230: add_state_change_callback in _initialize_services
AddStateChangeCallback(t) ==
  /\ t = Main
  /\ pc[t] = "cb_set"
  /\ stateCallbacks' = stateCallbacks + 1
  /\ pc' = [pc EXCEPT ![t] = "idle"]
  /\ UNCHANGED <<state, lastError, retryCount, connection, connLock,
                 stopHealthCheck, timers, authCallback, stack, loc, ghost, others>>

\* ------------------------------------------------------------ _set_state
\* _set_state(s, e) called by t, which continues at `next` afterwards: the
\* assignment under _state_lock and the callback loop that follows it
SetState(t, s, e, next) ==
  /\ state' = s
  /\ lastError' = e
  /\ pc' = [pc EXCEPT ![t] = next]

\* ----------------------------------------------------- _schedule_reconnect
\* lines 233-237: with the retries used up the state becomes Failed and the
\* call returns
SrCheck(t) ==
  /\ pc[t] = "sr_check"
  /\ IF RetriesExhausted(retryCount)
     THEN /\ SetState(t, FAILED, MaxRetriesExceeded, PcAfterReturn(t))
          /\ stack' = [stack EXCEPT ![t] = StackAfterReturn(t)]
          /\ loc' = [loc EXCEPT ![t] = LocAfterReturn(t, @)]
     ELSE /\ pc' = [pc EXCEPT ![t] = "sr_increment"]
          /\ UNCHANGED <<state, lastError, stack, loc>>
  /\ UNCHANGED <<retryCount, connection, connLock, stopHealthCheck,
                 timers, stateCallbacks, authCallback, ghost, others>>

\* lines 240-243: the delay is computed from _retry_count, which is then
\* incremented
SrIncrement(t) ==
  /\ pc[t] = "sr_increment"
  /\ loc' = [loc EXCEPT ![t].delay = BackoffDelay(retryCount)]
  /\ retryCount' = retryCount + 1
  /\ pc' = [pc EXCEPT ![t] = "sr_set_reconnecting"]
  /\ UNCHANGED <<state, lastError, connection, connLock, stopHealthCheck,
                 timers, stateCallbacks, authCallback, stack, ghost, others>>

\* lines 244-245
SrSetReconnecting(t) ==
  /\ pc[t] = "sr_set_reconnecting"
  /\ SetState(t, RECONNECTING, ReconnectingIn, "sr_arm")
  /\ loc' = [loc EXCEPT ![t].delay = 0]
  /\ UNCHANGED <<retryCount, connection, connLock, stopHealthCheck,
                 timers, stateCallbacks, authCallback, stack, ghost, others>>

\* lines 250-252: threading.Timer(delay, self._reconnect).start()
SrArm(t) ==
  /\ pc[t] = "sr_arm"
  /\ pendingReconnect < MaxPending
  /\ pendingReconnect' = pendingReconnect + 1
  /\ pc' = [pc EXCEPT ![t] = PcAfterReturn(t)]
  /\ stack' = [stack EXCEPT ![t] = StackAfterReturn(t)]
  /\ loc' = [loc EXCEPT ![t] = LocAfterReturn(t, @)]
  /\ UNCHANGED <<state, lastError, retryCount, connection, connLock, stopHealthCheck,
                 healthCheckTimer, orphanHealth, stateCallbacks, authCallback, ghost, others>>

\* --------------------------------------------------- _trigger_auth_failure
TriggerAuthFailure(t) ==
  /\ pc[t] = "auth_cb"
  /\ authReported' = Triggered
  /\ pc' = [pc EXCEPT ![t] = PcAfterReturn(t)]
  /\ stack' = [stack EXCEPT ![t] = StackAfterReturn(t)]
  /\ loc' = [loc EXCEPT ![t] = LocAfterReturn(t,
               [@ EXCEPT !.cbCalls = IF authCallback THEN @ + 1 ELSE @])]
  /\ UNCHANGED <<mgr, closed, streak, others>>

\* -------------------------------------------------------------- _reconnect
\* The reconnect timer's delay elapses. Lines 258-267: the stale handle is
\* unbound under the connection lock, which is taken again for the bind; the
\* bind is then in progress.
RcBindStart(t) ==
  /\ t \in ReconnectThreads
  /\ pc[t] = "free"
  /\ pendingReconnect > 0
  /\ pendingReconnect' = pendingReconnect - 1
  /\ connLock = 0
  /\ connLock' = t
  /\ connection' = NoConn
  /\ pc' = [pc EXCEPT ![t] = "rc_binding"]
  /\ UNCHANGED <<state, lastError, retryCount, stopHealthCheck,
                 healthCheckTimer, orphanHealth, stateCallbacks, authCallback,
                 stack, loc, ghost, others>>

\* line 268: _create_connection returns a handle or raises; lines 278-288
\* report a credential failure and retry anything else
RcBindDone(t, outcomes) ==
  /\ pc[t] = "rc_binding"
  /\ \E o \in outcomes :
       IF o = NoMsg
       THEN /\ connection' = Handle
            /\ pc' = [pc EXCEPT ![t] = "rc_set_connected"]
            /\ loc' = [loc EXCEPT ![t].late = (closed = "returned")]
            /\ streak' = StreakAfter(TRUE)
       ELSE /\ pc' = [pc EXCEPT ![t] = IF IsAuthenticationError(ReconnectPrefix \o o)
                                       THEN "auth_cb" ELSE "sr_check"]
            /\ streak' = StreakAfter(FALSE)
            /\ UNCHANGED <<connection, loc>>
  /\ connLock' = 0
  /\ UNCHANGED <<state, lastError, retryCount, stopHealthCheck, timers,
                 stateCallbacks, authCallback, stack, authReported, closed, others>>

RcSetConnected(t) ==
  /\ pc[t] = "rc_set_connected"
  /\ SetState(t, CONNECTED, NoError, "rc_reset")
  /\ UNCHANGED <<retryCount, connection, connLock, stopHealthCheck,
                 timers, stateCallbacks, authCallback, stack, loc, ghost, others>>

\* a success path that leaves _retry_count as it is
RcKeepCount(t) ==
  /\ pc[t] = "rc_reset"
  /\ pc' = [pc EXCEPT ![t] = "shc_stop"]
  /\ UNCHANGED <<state, lastError, retryCount, connection, connLock, stopHealthCheck,
                 timers, stateCallbacks, authCallback, stack, loc, ghost, others>>

\* line 271
RcReset(t) ==
  /\ pc[t] = "rc_reset"
  /\ retryCount' = 0
  /\ pc' = [pc EXCEPT ![t] = "shc_stop"]
  /\ UNCHANGED <<state, lastError, connection, connLock, stopHealthCheck,
                 timers, stateCallbacks, authCallback, stack, loc, ghost, others>>

\* ------------------------------------------------------ _start_health_check
\* `if self._health_check_timer: self._health_check_timer.cancel()`: a
\* timer still waiting never runs
Cancelled == IF healthCheckTimer = NoTimer THEN NoTimer ELSE StaleTimer

\* lines 333-335: stop the existing health check
ShcStop(t) ==
  /\ pc[t] = "shc_stop"
  /\ stopHealthCheck' = TRUE
  /\ healthCheckTimer' = Cancelled
  /\ pc' = [pc EXCEPT ![t] = "shc_start"]
  /\ UNCHANGED <<state, lastError, retryCount, connection, connLock,
                 orphanHealth, pendingReconnect, stateCallbacks, authCallback,
                 stack, loc, ghost, others>>

\* lines 338-342: reset the stop event; create, keep and start the timer
ShcStart(t) ==
  /\ pc[t] = "shc_start"
  /\ CanArmHealth
  /\ stopHealthCheck' = FALSE
  /\ healthCheckTimer' = WaitingTimer
  /\ orphanHealth' = OrphansAfterArm
  /\ pc' = [pc EXCEPT ![t] = PcAfterReturn(t)]
  /\ stack' = [stack EXCEPT ![t] = StackAfterReturn(t)]
  /\ loc' = [loc EXCEPT ![t] = LocAfterReturn(t, @)]
  /\ UNCHANGED <<state, lastError, retryCount, connection, connLock,
                 pendingReconnect, stateCallbacks, authCallback, ghost, others>>

\* ----------------------------------------------------------- _health_check
\* The health-check timer's interval elapses; line 292 reads the stop flag.
HcCheckStop(t) ==
  /\ t \in HealthThreads
  /\ pc[t] = "free"
  /\ \E named \in {b \in BOOLEAN : IF b THEN healthCheckTimer = WaitingTimer
                                          ELSE orphanHealth > 0} :
       /\ healthCheckTimer' = IF named THEN StaleTimer ELSE healthCheckTimer
       /\ orphanHealth' = IF named THEN orphanHealth ELSE orphanHealth - 1
  /\ pc' = [pc EXCEPT ![t] = IF stopHealthCheck THEN "free" ELSE "hc_probe"]
  /\ loc' = [loc EXCEPT ![t].sinceAuth = (~stopHealthCheck /\ authReported)]
  /\ UNCHANGED <<state, lastError, retryCount, connection, connLock, stopHealthCheck,
                 pendingReconnect, stateCallbacks, authCallback, stack, ghost, others>>

\* lines 296-298: take the connection lock; without a handle the run ends
\* here, else the probe search is in progress
HcProbeStart(t) ==
  /\ pc[t] = "hc_probe"
  /\ connLock = 0
  /\ connLock' = IF connection = NoConn THEN 0 ELSE t
  /\ pc' = [pc EXCEPT ![t] = IF connection = NoConn THEN "free" ELSE "hc_probing"]
  /\ loc' = [loc EXCEPT ![t] = IF connection = NoConn THEN NoLocals ELSE @]
  /\ UNCHANGED <<state, lastError, retryCount, connection, stopHealthCheck,
                 timers, stateCallbacks, authCallback, stack, ghost, others>>

\* lines 301-308: the search returns true, or returns false or raises
HcProbeDone(t, outcomes) ==
  /\ pc[t] = "hc_probing"
  /\ \E ok \in outcomes :
       /\ pc' = [pc EXCEPT ![t] = IF ok THEN "hc_ok_read" ELSE "hc_fail_read"]
       /\ streak' = StreakAfter(ok)
  /\ connLock' = 0
  /\ UNCHANGED <<state, lastError, retryCount, connection, stopHealthCheck,
                 timers, stateCallbacks, authCallback, stack, loc,
                 authReported, closed, others>>

\* line 311
HcOkRead(t) ==
  /\ pc[t] = "hc_ok_read"
  /\ pc' = [pc EXCEPT ![t] = IF state # CONNECTED THEN "hc_ok_set" ELSE "hc_rearm_check"]
  /\ UNCHANGED <<mgr, stack, loc, ghost, others>>

\* line 312
HcOkSet(t) ==
  /\ pc[t] = "hc_ok_set"
  /\ SetState(t, CONNECTED, NoError, "hc_ok_reset")
  /\ UNCHANGED <<retryCount, connection, connLock, stopHealthCheck,
                 timers, stateCallbacks, authCallback, stack, loc, ghost, others>>

\* line 313
HcOkReset(t) ==
  /\ pc[t] = "hc_ok_reset"
  /\ retryCount' = 0
  /\ pc' = [pc EXCEPT ![t] = "hc_rearm_check"]
  /\ UNCHANGED <<state, lastError, connection, connLock, stopHealthCheck,
                 timers, stateCallbacks, authCallback, stack, loc, ghost, others>>

\* line 319
HcFailRead(t) ==
  /\ pc[t] = "hc_fail_read"
  /\ pc' = [pc EXCEPT ![t] = IF state = CONNECTED THEN "hc_fail_set" ELSE "hc_rearm_check"]
  /\ UNCHANGED <<mgr, stack, loc, ghost, others>>

\* lines 320-321: Reconnecting, then _schedule_reconnect
HcFailSet(t) ==
  /\ pc[t] = "hc_fail_set"
  /\ SetState(t, RECONNECTING, ConnectionLost, "sr_check")
  /\ stack' = [stack EXCEPT ![t] = <<"hc_rearm_check">> \o @]
  /\ UNCHANGED <<retryCount, connection, connLock, stopHealthCheck,
                 timers, stateCallbacks, authCallback, loc, ghost, others>>

\* line 324: the stop flag is read before the next timer is made
HcRearmCheck(t) ==
  /\ pc[t] = "hc_rearm_check"
  /\ pc' = [pc EXCEPT ![t] = IF stopHealthCheck THEN "free" ELSE "hc_rearm"]
  /\ loc' = [loc EXCEPT ![t] = IF stopHealthCheck THEN NoLocals ELSE @]
  /\ UNCHANGED <<mgr, stack, ghost, others>>

\* lines 325-328
HcRearm(t) ==
  /\ pc[t] = "hc_rearm"
  /\ CanArmHealth
  /\ healthCheckTimer' = WaitingTimer
  /\ orphanHealth' = OrphansAfterArm
  /\ pc' = [pc EXCEPT ![t] = "free"]
  /\ loc' = [loc EXCEPT ![t] = NoLocals]
  /\ UNCHANGED <<state, lastError, retryCount, connection, connLock, stopHealthCheck,
                 pendingReconnect, stateCallbacks, authCallback, stack, ghost, others>>

\* ---------------------------------------------------------- get_connection
\* line 371: self._retry_count < self.max_retries
RetriesRemain(rc) == rc < MaxRetries

CallGetConnection(t) ==
  /\ pc[t] = "idle"
  /\ Ready
  /\ pc' = [pc EXCEPT ![t] = "gc_read"]
  /\ stack' = [stack EXCEPT ![t] = <<"call_done">>]
  /\ UNCHANGED <<mgr, loc, ghost, others>>

\* line 350: state = self.get_state(), and the branch taken on it; in
\* Failed or Disconnected (lines 370-375) _schedule_reconnect is called if
\* retries remain, and None is returned either way
GcRead(t) ==
  /\ pc[t] = "gc_read"
  /\ IF state = CONNECTED
     THEN /\ pc' = [pc EXCEPT ![t] = "gc_ret_conn"]
          /\ UNCHANGED <<stack, loc>>
     ELSE IF state = RECONNECTING
     THEN /\ pc' = [pc EXCEPT ![t] = "gc_poll"]
          /\ loc' = [loc EXCEPT ![t].poll = 0]
          /\ UNCHANGED stack
     ELSE IF state \in {FAILED, DISCONNECTED} /\ RetriesRemain(retryCount)
     THEN /\ pc' = [pc EXCEPT ![t] = "sr_check"]
          /\ loc' = [loc EXCEPT ![t].conn = NoConn]
          /\ UNCHANGED stack
     ELSE /\ pc' = [pc EXCEPT ![t] = PcAfterReturn(t)]
          /\ stack' = [stack EXCEPT ![t] = StackAfterReturn(t)]
          /\ loc' = [loc EXCEPT ![t].conn = NoConn]
  /\ UNCHANGED <<mgr, ghost, others>>

\* lines 354-355 and 363-364: return self._connection under the lock
GcReturnConn(t) ==
  /\ pc[t] = "gc_ret_conn"
  /\ connLock = 0
  /\ loc' = [loc EXCEPT ![t].conn = connection, ![t].poll = 0]
  /\ pc' = [pc EXCEPT ![t] = PcAfterReturn(t)]
  /\ stack' = [stack EXCEPT ![t] = StackAfterReturn(t)]
  /\ UNCHANGED <<mgr, ghost, others>>

\* lines 360-367: one sleep and one look at the state
GcPoll(t) ==
  /\ pc[t] = "gc_poll"
  /\ IF state = CONNECTED
     THEN /\ pc' = [pc EXCEPT ![t] = "gc_ret_conn"]
          /\ UNCHANGED <<stack, loc>>
     ELSE IF loc[t].poll + 1 < MaxPolls
     THEN /\ loc' = [loc EXCEPT ![t].poll = @ + 1]
          /\ UNCHANGED <<pc, stack>>
     ELSE /\ pc' = [pc EXCEPT ![t] = PcAfterReturn(t)]
          /\ stack' = [stack EXCEPT ![t] = StackAfterReturn(t)]
          /\ loc' = [loc EXCEPT ![t].conn = NoConn, ![t].poll = 0]
  /\ UNCHANGED <<mgr, ghost, others>>

\* ------------------------------------------------------ execute_with_retry
\* line 415: `raise` re-raises the error of the attempt that just failed
Reraised(l) == l.lastErr

CallExecuteWithRetry(t) ==
  /\ pc[t] = "idle"
  /\ Ready
  /\ pc' = [pc EXCEPT ![t] = "gc_read"]
  /\ stack' = [stack EXCEPT ![t] = <<"ewr_check">>]
  /\ UNCHANGED <<mgr, loc, ghost, others>>

\* lines 396-400: without a connection the call raises, else op is invoked
EwrCheck(t) ==
  /\ pc[t] = "ewr_check"
  /\ LET l == [loc[t] EXCEPT !.gotNone = (loc[t].conn = NoConn)] IN
     IF NoConnectionAvailable(loc[t].conn)
     THEN /\ pc' = [pc EXCEPT ![t] = "call_done"]
          /\ loc' = [loc EXCEPT ![t] = [l EXCEPT !.result = "raised",
                                                 !.raised = NoConnectionMsg]]
     ELSE /\ pc' = [pc EXCEPT ![t] = "ewr_op"]
          /\ loc' = [loc EXCEPT ![t] = [l EXCEPT !.opCalls = @ + 1]]
  /\ UNCHANGED <<mgr, stack, ghost, others>>

\* lines 400-418: op returns, or raises and is classified
EwrOpDone(t, outcomes) ==
  /\ pc[t] = "ewr_op"
  /\ \E o \in outcomes :
       IF o = NoMsg
       THEN /\ pc' = [pc EXCEPT ![t] = "call_done"]
            /\ loc' = [loc EXCEPT ![t].result = "returned"]
            /\ UNCHANGED stack
       ELSE LET l == [loc[t] EXCEPT !.retries = @ + 1, !.lastErr = o] IN
            IF IsAuthenticationError(o)
            THEN /\ pc' = [pc EXCEPT ![t] = "auth_cb"]
                 /\ stack' = [stack EXCEPT ![t] = <<"ewr_raise_auth">>]
                 /\ loc' = [loc EXCEPT ![t] = l]
            ELSE IF OperationRetriesExhausted(l.retries)
            THEN /\ pc' = [pc EXCEPT ![t] = "call_done"]
                 /\ loc' = [loc EXCEPT ![t] = [l EXCEPT !.result = "raised", !.raised = Reraised(l)]]
                 /\ UNCHANGED stack
            ELSE /\ pc' = [pc EXCEPT ![t] = "gc_read"]
                 /\ stack' = [stack EXCEPT ![t] = <<"ewr_check">>]
                 /\ loc' = [loc EXCEPT ![t] = [l EXCEPT !.lastErr = NoMsg, !.conn = NoConn]]
  /\ UNCHANGED <<mgr, ghost, others>>

\* line 411: raise Exception("Authentication failed: ...")
EwrRaiseAuth(t) ==
  /\ pc[t] = "ewr_raise_auth"
  /\ pc' = [pc EXCEPT ![t] = "call_done"]
  /\ loc' = [loc EXCEPT ![t].result = "raised", ![t].raised = AuthPrefix \o loc[t].lastErr]
  /\ UNCHANGED <<mgr, stack, ghost, others>>

\* get_connection or execute_with_retry is back in the caller
CallDone(t) ==
  /\ pc[t] = "call_done"
  /\ pc' = [pc EXCEPT ![t] = "idle"]
  /\ loc' = [loc EXCEPT ![t] = NoLocals]
  /\ UNCHANGED <<mgr, stack, ghost, others>>

\* ------------------------------------------------------------------- close
\* lines 425-427: stop health checks
CallClose(t) ==
  /\ pc[t] = "idle"
  /\ Ready
  /\ stopHealthCheck' = TRUE
  /\ healthCheckTimer' = Cancelled
  /\ closed' = IF closed = "returned" THEN "returned" ELSE "called"
  /\ pc' = [pc EXCEPT ![t] = "cl_unbind"]
  /\ UNCHANGED <<state, lastError, retryCount, connection, connLock,
                 orphanHealth, pendingReconnect, stateCallbacks, authCallback,
                 stack, loc, authReported, streak, others>>

\* an unbind with nothing around it to catch what it raises
CaughtNever(o) == FALSE

\* lines 432-435: the bare `except: pass` around unbind() catches whatever
\* it raises
CaughtBare(o) == o # NoMsg

\* lines 430-436: under the connection lock the handle, if there is one, is
\* unbound, which may raise, and forgotten
ClUnbind(t, outcomes) ==
  /\ pc[t] = "cl_unbind"
  /\ connLock = 0
  /\ \E o \in (IF connection = NoConn THEN {NoMsg} ELSE outcomes) :
       IF o = NoMsg \/ CaughtBare(o)
       THEN /\ connection' = NoConn
            /\ pc' = [pc EXCEPT ![t] = "cl_set"]
            /\ loc' = [loc EXCEPT ![t].lastErr = o]
       ELSE /\ connection' = connection
            /\ pc' = [pc EXCEPT ![t] = "call_done"]
            /\ loc' = [loc EXCEPT ![t].result = "raised", ![t].raised = o]
  /\ UNCHANGED <<state, lastError, retryCount, connLock, stopHealthCheck,
                 timers, stateCallbacks, authCallback, stack, ghost, others>>

\* line 438
ClSetDisconnected(t) ==
  /\ pc[t] = "cl_set"
  /\ SetState(t, DISCONNECTED, NoError, "cl_return")
  /\ UNCHANGED <<retryCount, connection, connLock, stopHealthCheck,
                 timers, stateCallbacks, authCallback, stack, loc, ghost, others>>

ClReturn(t) ==
  /\ pc[t] = "cl_return"
  /\ closed' = "returned"
  /\ pc' = [pc EXCEPT ![t] = "idle"]
  /\ loc' = [loc EXCEPT ![t] = NoLocals]
  /\ UNCHANGED <<mgr, stack, authReported, streak, others>>

\* ----------------------------------------------------------- specification
Next ==
  \E t \in Threads :
    \/ Connect(t, BindOutcomes)
    \/ SetAuthFailureCallback(t)
    \/ AddStateChangeCallback(t)
    \/ SrCheck(t)
    \/ SrIncrement(t)
    \/ SrSetReconnecting(t)
    \/ SrArm(t)
    \/ TriggerAuthFailure(t)
    \/ RcBindStart(t)
    \/ RcBindDone(t, BindOutcomes)
    \/ RcSetConnected(t)
    \/ RcReset(t)
    \/ ShcStop(t)
    \/ ShcStart(t)
    \/ HcCheckStop(t)
    \/ HcProbeStart(t)
    \/ HcProbeDone(t, ProbeOutcomes)
    \/ HcOkRead(t)
    \/ HcOkSet(t)
    \/ HcOkReset(t)
    \/ HcFailRead(t)
    \/ HcFailSet(t)
    \/ HcRearmCheck(t)
    \/ HcRearm(t)
    \/ CallGetConnection(t)
    \/ GcRead(t)
    \/ GcReturnConn(t)
    \/ GcPoll(t)
    \/ CallExecuteWithRetry(t)
    \/ EwrCheck(t)
    \/ EwrOpDone(t, OpOutcomes)
    \/ EwrRaiseAuth(t)
    \/ CallDone(t)
    \/ CallClose(t)
    \/ ClUnbind(t, UnbindOutcomes)
    \/ ClSetDisconnected(t)
    \/ ClReturn(t)

Spec == Init /\ [][Next]_vars


\* The runs in which every failure is transient and fewer than max_retries
\* of them follow one another: the directory client's outcomes are drawn
\* from the ...Few sets, nobody calls close(), and the constructor and the
\* timers are scheduled fairly.  No credential failure occurs in such a run,
\* so _trigger_auth_failure has no caller in it.
InitLive == Fresh /\ streak = 0 /\ OnlyManager

NextLive ==
  \E t \in Threads :
    \/ Connect(t, BindOutcomesFew)
    \/ SetAuthFailureCallback(t)
    \/ AddStateChangeCallback(t)
    \/ SrCheck(t)
    \/ SrIncrement(t)
    \/ SrSetReconnecting(t)
    \/ SrArm(t)
    \/ RcBindStart(t)
    \/ RcBindDone(t, BindOutcomesFew)
    \/ RcSetConnected(t)
    \/ RcReset(t)
    \/ ShcStop(t)
    \/ ShcStart(t)
    \/ HcCheckStop(t)
    \/ HcProbeStart(t)
    \/ HcProbeDone(t, ProbeOutcomesFew)
    \/ HcOkRead(t)
    \/ HcOkSet(t)
    \/ HcOkReset(t)
    \/ HcFailRead(t)
    \/ HcFailSet(t)
    \/ HcRearmCheck(t)
    \/ HcRearm(t)
    \/ CallGetConnection(t)
    \/ GcRead(t)
    \/ GcReturnConn(t)
    \/ GcPoll(t)
    \/ CallExecuteWithRetry(t)
    \/ EwrCheck(t)
    \/ EwrOpDone(t, OpOutcomesFew)
    \/ CallDone(t)

\* what the thread of a timer that fired runs: _reconnect or _health_check,
\* and what they call
TimerStep(t) ==
  \/ SrCheck(t)
  \/ SrIncrement(t)
  \/ SrSetReconnecting(t)
  \/ SrArm(t)
  \/ RcBindStart(t)
  \/ RcBindDone(t, BindOutcomesFew)
  \/ RcSetConnected(t)
  \/ RcReset(t)
  \/ ShcStop(t)
  \/ ShcStart(t)
  \/ HcCheckStop(t)
  \/ HcProbeStart(t)
  \/ HcProbeDone(t, ProbeOutcomesFew)
  \/ HcOkRead(t)
  \/ HcOkSet(t)
  \/ HcOkReset(t)
  \/ HcFailRead(t)
  \/ HcFailSet(t)
  \/ HcRearmCheck(t)
  \/ HcRearm(t)

\* the constructor returns, and every timer that was started fires and runs
\* to its end
Fairness ==
  /\ WF_vars(Connect(Main, BindOutcomesFew))
  /\ \A t \in Timers : WF_vars(TimerStep(t))

SpecLive == InitLive /\ [][NextLive]_vars /\ Fairness

\* ------------------------------------------------ close() left undisturbed
\* The thread that built the manager registers its callbacks, calls
\* get_connection and closes, again and again; the timers fire and run as
\* they do, except that their threads take no step while a close() is in
\* progress.
Closing == pc[Main] \in {"cl_unbind", "cl_set", "cl_return"}

NextCaller ==
  \/ Connect(Main, BindOutcomes)
  \/ SetAuthFailureCallback(Main)
  \/ AddStateChangeCallback(Main)
  \/ CallGetConnection(Main)
  \/ GcRead(Main)
  \/ GcReturnConn(Main)
  \/ GcPoll(Main)
  \/ SrCheck(Main)
  \/ SrIncrement(Main)
  \/ SrSetReconnecting(Main)
  \/ SrArm(Main)
  \/ CallDone(Main)
  \/ CallClose(Main)
  \/ ClUnbind(Main, UnbindOutcomes)
  \/ ClSetDisconnected(Main)
  \/ ClReturn(Main)

NextQuietClose ==
  \/ NextCaller
  \/ \E t \in Timers : ~Closing /\ TimerStep(t)

SpecQuietClose == Init /\ [][NextQuietClose]_vars

\* ------------------------------------- a successful bind left undisturbed
\* Every thread runs as in Spec, except that while a reconnect is between
\* its successful bind and the end of _start_health_check (lines 270-274)
\* no other thread takes a step.
AfterBind(t) == pc[t] \in {"rc_set_connected", "rc_reset", "shc_stop", "shc_start"}

NextUndisturbedBind ==
  \/ (\A t \in Threads : ~AfterBind(t)) /\ Next
  \/ \E t \in ReconnectThreads :
       \/ RcSetConnected(t)
       \/ RcReset(t)
       \/ ShcStop(t)
       \/ ShcStart(t)

SpecUndisturbedBind == Init /\ [][NextUndisturbedBind]_vars

\* ---------------------------------------------- remote calls that may hang
\* Connection(...) at line 160 and the probe's search at lines 300-306 are
\* given no timeout, so a bind or a probe ends only when the server answers.
\* Every step a thread takes by itself is taken; an answer of the server is
\* not promised.
LocalTimerStep(t) ==
  \/ SrCheck(t)
  \/ SrIncrement(t)
  \/ SrSetReconnecting(t)
  \/ SrArm(t)
  \/ RcBindStart(t)
  \/ RcSetConnected(t)
  \/ RcReset(t)
  \/ ShcStop(t)
  \/ ShcStart(t)
  \/ HcCheckStop(t)
  \/ HcProbeStart(t)
  \/ HcOkRead(t)
  \/ HcOkSet(t)
  \/ HcOkReset(t)
  \/ HcFailRead(t)
  \/ HcFailSet(t)
  \/ HcRearmCheck(t)
  \/ HcRearm(t)

\* a caller waiting for the connection lock gets it if it is free again and
\* again
FairnessLocal ==
  /\ WF_vars(Connect(Main, BindOutcomesFew))
  /\ \A t \in Timers : WF_vars(LocalTimerStep(t))
  /\ \A t \in Callers : SF_vars(GcReturnConn(t))

SpecStall == InitLive /\ [][NextLive]_vars /\ FairnessLocal

\* ------------------------------------------------- the backoff, on its own
\* One manager's failures in a row, for each choice of its retry parameters:
\* every failure calls _schedule_reconnect, which gives up at max_retries
\* (line 233) and else computes the delay from _retry_count and increments
\* it (lines 240-243); a successful connect sets _retry_count to 0 (lines
\* 212, 271).
InitBackoff ==
  /\ Fresh
  /\ streak = -1
  /\ backoff \in [ initial : 1..MaxInitialDelay, maxDelay : 1..MaxDelayCap,
                   rc : {0}, delay : {NoDelay}, prev : {NoDelay} ]
  /\ notify = NoNotify
  /\ tree = NoTree
  /\ ApartIdle

BackoffSchedule ==
  /\ backoff.rc < BackoffRetries
  /\ backoff' = [backoff EXCEPT
                   !.prev = backoff.delay,
                   !.delay = Delay(backoff.initial, backoff.rc, backoff.maxDelay),
                   !.rc = @ + 1]
  /\ UNCHANGED <<mgr, pc, stack, loc, ghost, notify, tree, apart>>

BackoffConnected ==
  /\ backoff.rc > 0
  /\ backoff' = [backoff EXCEPT !.prev = NoDelay, !.delay = NoDelay, !.rc = 0]
  /\ UNCHANGED <<mgr, pc, stack, loc, ghost, notify, tree, apart>>

NextBackoff == BackoffSchedule \/ BackoffConnected

SpecBackoff == InitBackoff /\ [][NextBackoff]_vars

\* ------------------------------------------------ callbacks that may raise
\* an invocation with nothing around it to catch what the callback raises
CaughtNothing(o) == FALSE

\* lines 94-99 and 114-121: `except Exception` around the invocation catches
\* what a callback raises
Caught(o) == o = Raises

\* the transitions the manager makes: the arguments of its _set_state calls
Transitions ==
  { <<CONNECTED, NoError>>, <<RECONNECTING, ConnectionLost>>,
    <<RECONNECTING, ReconnectingIn>>, <<FAILED, MaxRetriesExceeded>>,
    <<DISCONNECTED, NoError>> }

\* Up to MaxCallbacks state-change callbacks are registered (lines 70-76) and
\* the auth-failure callback is set or not (lines 103-109); each one returns
\* or raises when invoked.
InitNotify ==
  /\ Fresh
  /\ streak = -1
  /\ backoff = NoBackoff
  /\ notify \in [ callbacks : UNION {[1..n -> CallbackBehaviours] : n \in 0..MaxCallbacks},
                  authCb : {NoCallback} \cup CallbackBehaviours,
                  target : {DISCONNECTED}, i : {0}, invoked : {{}},
                  pos : {"idle"}, authRaised : {FALSE} ]
  /\ tree = NoTree
  /\ ApartIdle

\* lines 86-89: the assignment under _state_lock
NtAssign ==
  /\ notify.pos = "idle"
  /\ \E tr \in Transitions :
       /\ state' = tr[1]
       /\ lastError' = tr[2]
       /\ notify' = [notify EXCEPT !.target = tr[1], !.i = 0, !.invoked = {},
                                   !.pos = "loop"]
  /\ UNCHANGED <<retryCount, connection, connLock, stopHealthCheck, timers,
                 stateCallbacks, authCallback, pc, stack, loc, ghost, backoff, tree, apart>>

\* lines 94-99: one turn of `for callback in self._state_change_callbacks`
NtInvoke ==
  /\ notify.pos = "loop"
  /\ notify.i < Len(notify.callbacks)
  /\ LET k == notify.i + 1
         o == notify.callbacks[k]
     IN IF o = Returns \/ Caught(o)
        THEN notify' = [notify EXCEPT !.i = k, !.invoked = @ \cup {k}]
        ELSE notify' = [notify EXCEPT !.i = k, !.invoked = @ \cup {k},
                                      !.pos = "raised"]
  /\ UNCHANGED <<mgr, pc, stack, loc, ghost, backoff, tree, apart>>

\* the loop is over and _set_state returns to the thread that called it
NtReturn ==
  /\ notify.pos = "loop"
  /\ notify.i = Len(notify.callbacks)
  /\ notify' = [notify EXCEPT !.pos = "returned"]
  /\ UNCHANGED <<mgr, pc, stack, loc, ghost, backoff, tree, apart>>

\* lines 111-123: _trigger_auth_failure
AfTrigger ==
  /\ notify.pos = "idle"
  /\ LET o == notify.authCb
     IN IF o = NoCallback \/ o = Returns
        THEN notify' = [notify EXCEPT !.pos = "auth_returned"]
        ELSE IF Caught(o)
        THEN notify' = [notify EXCEPT !.pos = "auth_returned", !.authRaised = TRUE]
        ELSE notify' = [notify EXCEPT !.pos = "raised"]
  /\ UNCHANGED <<mgr, pc, stack, loc, ghost, backoff, tree, apart>>

\* the calling thread goes on with what follows the call
NtContinue ==
  /\ notify.pos \in {"returned", "auth_returned"}
  /\ notify' = [notify EXCEPT !.pos = "idle"]
  /\ UNCHANGED <<mgr, pc, stack, loc, ghost, backoff, tree, apart>>

NextNotify == NtAssign \/ NtInvoke \/ NtReturn \/ AfTrigger \/ NtContinue

SpecNotify == InitNotify /\ [][NextNotify]_vars

\* ---------------------------------------------------------------- the tree
\* ADTree (adtree.py) over the connection manager. What get_connection
\* returns and whether a search raises are decided by the manager and the
\* server; here each is drawn from its possible outcomes.

\* lines 23-25: empty loaded_ous and ou_cache, then build_tree, which shows
\* the units below the base DN if its search succeeded
InitTree ==
  /\ Fresh
  /\ streak = -1
  /\ backoff = NoBackoff
  /\ notify = NoNotify
  /\ ApartIdle
  /\ \E shown \in {{}, Dns} : tree = [NoTree EXCEPT !.nodes = shown]

Manager == <<mgr, pc, stack, loc, ghost, backoff, notify, apart>>

UiFree == tree.ui.pos = "none"

\* lines 108 and 116: `node.data not in self.loaded_ous`
NeedsLoad(d) == d \notin tree.loaded

\* One step of populate_ou (lines 125-187) or, from "get_conn" on, of
\* _populate_ou_fresh (lines 223-281), for the call j: the look into
\* ou_cache; _populate_from_cache; get_connection inside execute_with_retry,
\* which raises without a connection; _build_direct_children; the search for
\* the objects, after which the result is cached or the operation retried
\* until operation_retry_count reaches 3. Every exception ends the call in
\* its `except Exception` (lines 184, 278).
JobAfter(j, avail, ok) ==
  CASE j.pos = "check" ->
         IF j.dn \in tree.cache
         THEN [j EXCEPT !.pos = "from_cache"]
         ELSE [j EXCEPT !.pos = "get_conn", !.calls = @ + 1]
    [] j.pos = "from_cache" -> [j EXCEPT !.pos = "done_ok"]
    [] j.pos = "get_conn" -> [j EXCEPT !.pos = IF avail THEN "sub" ELSE "done_noconn"]
    [] j.pos = "sub" -> [j EXCEPT !.pos = "obj"]
    [] j.pos = "obj" ->
         IF ok THEN [j EXCEPT !.pos = "done_ok"]
         ELSE IF OperationRetriesExhausted(j.retries + 1)
         THEN [j EXCEPT !.pos = "done_failed", !.retries = @ + 1]
         ELSE [j EXCEPT !.pos = "get_conn", !.retries = @ + 1]

Running(j) == j.pos \in {"check", "from_cache", "get_conn", "sub", "obj"}
Done(j) == j.pos \in {"done_ok", "done_failed", "done_noconn"}

\* lines 155 and 249: self.ou_cache[ou_dn] = objects
CacheAfter(j, ok) ==
  IF j.pos = "obj" /\ ok THEN tree.cache \cup {j.dn} ELSE tree.cache

\* how the fetch of the first expansion ended
FetchedAfter(j) ==
  IF j.kind \in {"expand", "ensure"}
  THEN [tree.fetched EXCEPT ![j.dn] =
          CASE j.pos = "done_ok" -> "ok"
            [] j.pos = "done_failed" -> "failed"
            [] j.pos = "done_noconn" -> "noconn"]
  ELSE tree.fetched

\* the call of populate_ou or _populate_ou_fresh for d by a handler that
\* began in the present state, starting at `start`
Call(kind, d, start) ==
  [NoJob EXCEPT !.pos = start, !.kind = kind, !.dn = d,
                !.calls = IF start = "get_conn" THEN 1 ELSE 0,
                !.wasCached = kind # "expand" /\ d \in tree.cache,
                !.wasLoaded = kind # "expand" /\ d \in tree.loaded]

\* a refresh that would look into ou_cache as populate_ou does
StartFromCache(d) == IF d \in tree.cache THEN "from_cache" ELSE "get_conn"

\* lines 223-281: _populate_ou_fresh goes to execute_with_retry at once,
\* whatever ou_cache holds
FreshStart(d) == "get_conn"

\* lines 105-111: on_tree_node_expanded marks the DN loaded and starts a
\* thread that runs populate_ou; for a DN already in loaded_ous it does
\* nothing
Expand(d) ==
  /\ UiFree
  /\ d \in tree.nodes
  /\ IF NeedsLoad(d)
     THEN /\ tree.job[d].pos = "none"
          /\ tree' = [tree EXCEPT
                        !.loaded = @ \cup {d},
                        !.job[d] = Call("expand", d, "check"),
                        !.fetched[d] = "running"]
     ELSE tree' = [tree EXCEPT !.again[d] = TRUE]
  /\ UNCHANGED Manager

\* lines 113-123: ensure_node_loaded does the same with populate_ou_sync
EnsureLoaded(d) ==
  /\ UiFree
  /\ d \in tree.nodes
  /\ IF NeedsLoad(d)
     THEN tree' = [tree EXCEPT
                     !.loaded = @ \cup {d},
                     !.ui = Call("ensure", d, "check"),
                     !.fetched[d] = "running"]
     ELSE tree' = [tree EXCEPT !.again[d] = TRUE]
  /\ UNCHANGED Manager

\* a refresh that would empty ou_cache and loaded_ous
ForgetAll(d) == Dns

\* lines 290-293 and 310-313: the DN refreshed is the only one deleted from
\* ou_cache and loaded_ous
Forgotten(d) == {d}

\* lines 283-322: refresh_current_ou and refresh_ou_by_dn forget the DN in
\* ou_cache and loaded_ous and call _populate_ou_fresh
Refresh(d) ==
  /\ UiFree
  /\ d \in tree.nodes
  /\ tree' = [tree EXCEPT
                !.cache = @ \ Forgotten(d),
                !.loaded = @ \ Forgotten(d),
                !.ui = Call("fresh", d, FreshStart(d)),
                !.fetched[d] = "none",
                !.again[d] = FALSE]
  /\ UNCHANGED Manager

\* lines 338-380: remove_node_by_dn takes the node out of the tree
RemoveNodeByDn(d) ==
  /\ UiFree
  /\ d \in tree.nodes
  /\ tree' = [tree EXCEPT !.nodes = @ \ {d}]
  /\ UNCHANGED Manager

\* lines 27-48: build_tree (load_root) clears the tree and shows the units
\* its search finds, none if the search fails
BuildTree ==
  /\ UiFree
  /\ \E shown \in {{}, Dns} : tree' = [tree EXCEPT !.nodes = shown]
  /\ UNCHANGED Manager

\* a step of the populate_ou that on_tree_node_expanded started for d
WorkerStep(d) ==
  /\ Running(tree.job[d])
  /\ \E avail \in BOOLEAN, ok \in BOOLEAN :
       tree' = [tree EXCEPT
                  !.job[d] = JobAfter(tree.job[d], avail, ok),
                  !.cache = CacheAfter(tree.job[d], ok)]
  /\ UNCHANGED Manager

\* its thread ends
WorkerEnd(d) ==
  /\ Done(tree.job[d])
  /\ tree' = [tree EXCEPT !.job[d] = NoJob, !.fetched = FetchedAfter(tree.job[d])]
  /\ UNCHANGED Manager

\* a step of the populate call the thread of the user interface is in
UiStep ==
  /\ Running(tree.ui)
  /\ \E avail \in BOOLEAN, ok \in BOOLEAN :
       tree' = [tree EXCEPT
                  !.ui = JobAfter(tree.ui, avail, ok),
                  !.cache = CacheAfter(tree.ui, ok)]
  /\ UNCHANGED Manager

\* it returns to the handler of the event
UiEnd ==
  /\ Done(tree.ui)
  /\ tree' = [tree EXCEPT !.ui = NoJob, !.fetched = FetchedAfter(tree.ui)]
  /\ UNCHANGED Manager

NextTree ==
  \/ BuildTree
  \/ UiStep
  \/ UiEnd
  \/ \E d \in Dns :
       \/ Expand(d)
       \/ EnsureLoaded(d)
       \/ Refresh(d)
       \/ RemoveNodeByDn(d)
       \/ WorkerStep(d)
       \/ WorkerEnd(d)

SpecTree == InitTree /\ [][NextTree]_vars

\* --------------------------------------------------- remove_node_by_dn
\* everything but the functions and scenarios followed on their own
Components == <<mgr, pc, stack, loc, ghost, backoff, notify, tree>>

SiblingDns == 1..MaxSiblings

\* the lists of children a node can have: each DN at most once
ChildLists ==
  UNION {{q \in [1..n -> SiblingDns] : \A a, b \in 1..n : q[a] = q[b] => a = b}
           : n \in 0..MaxSiblings}

Range(q) == {q[k] : k \in 1..Len(q)}

\* A node with its children, the cursor on it or on one of them, and the
\* DN that remove_node_by_dn is given.
InitRemoval ==
  /\ Fresh
  /\ streak = -1
  /\ backoff = NoBackoff
  /\ notify = NoNotify
  /\ tree = NoTree
  /\ order = NoOrder
  /\ kids = NoKids
  /\ listing = NoListing
  /\ message = NoVerdict
  /\ scenario = NoScenario
  /\ \E q \in ChildLists, c \in {Parent} \cup SiblingDns, d \in SiblingDns :
       /\ c \in {Parent} \cup Range(q)
       /\ removal = [ siblings |-> q, cursor |-> c, dn |-> d, before |-> q,
                      cursorBefore |-> c, returned |-> "none" ]

\* lines 324-336: _find_node_by_dn, here the place of the DN among the
\* children, 0 if no node has it
FindNodeByDn(q, d) ==
  IF d \in Range(q) THEN CHOOSE k \in 1..Len(q) : q[k] = d ELSE 0

\* a choice that prefers the previous sibling
PreviousFirst(q, k) ==
  IF k > 1 THEN q[k - 1] ELSE IF k < Len(q) THEN q[k + 1] ELSE Parent

\* lines 359-370: the next sibling, else the previous one, else the parent
NextNode(q, k) ==
  IF k < Len(q) THEN q[k + 1] ELSE IF k > 1 THEN q[k - 1] ELSE Parent

\* line 373: target_node.remove()
Without(q, k) == [m \in 1..(Len(q) - 1) |-> IF m < k THEN q[m] ELSE q[m + 1]]

\* lines 338-380: remove_node_by_dn. The parent of a node that carries a DN
\* is never the root of the widget (line 36 puts the base DN's node in
\* between), so line 376 always selects.
RemoveAndSelect ==
  /\ removal.returned = "none"
  /\ removal.dn # NoNode
  /\ LET k == FindNodeByDn(removal.siblings, removal.dn)
     IN IF k = 0
        THEN removal' = [removal EXCEPT !.returned = "false"]
        ELSE removal' = [removal EXCEPT
                           !.siblings = Without(removal.siblings, k),
                           !.cursor = NextNode(removal.siblings, k),
                           !.returned = "true"]
  /\ UNCHANGED <<Components, order, kids, listing, message, scenario>>

NextRemoval == RemoveAndSelect

SpecRemoval == InitRemoval /\ [][NextRemoval]_vars

\* ------------------------------------------------- populating one node
\* The name of an entry: the letter it begins with, written as a capital or
\* not. Two names that differ in case only are different strings.
Names == [ letter : 1..NumLetters, capital : BOOLEAN ]

\* what a search returns: up to MaxEntries entries with different names, in
\* the server's order
Answers ==
  UNION {{q \in [1..n -> Names] : \A a, b \in 1..n : q[a] = q[b] => a = b}
           : n \in 0..MaxEntries}

\* the same entries in any order
Reordered(q) == {r \in Answers : Len(r) = Len(q) /\ Range(r) = Range(q)}

\* lines 64-70: get_name, the lower-cased name
get_name(entry) == entry.letter

\* line 71: sorted(conn.entries, key=get_name), which keeps entries with
\* equal keys in the order they came in
RECURSIVE Sorted(_)
Sorted(q) ==
  IF q = << >> THEN << >>
  ELSE LET x == q[Len(q)]
           s == Sorted(SubSeq(q, 1, Len(q) - 1))
           n == Cardinality({k \in 1..Len(s) : get_name(s[k]) <= get_name(x)})
       IN SubSeq(s, 1, n) \o <<x>> \o SubSeq(s, n + 1, Len(s))

\* lines 73-86: one folder node per container entry, in the sorted order
BuildDirectChildren(q) ==
  [k \in 1..Len(q) |-> [ type |-> "container", name |-> Sorted(q)[k] ]]

\* lines 156-177 and 203-217: one leaf per object, in the order of the list
AddLeaves(q) == [k \in 1..Len(q) |-> [ type |-> "leaf", name |-> q[k] ]]

InitListing ==
  /\ Fresh
  /\ streak = -1
  /\ backoff = NoBackoff
  /\ notify = NoNotify
  /\ tree = NoTree
  /\ order = NoOrder
  /\ kids = NoKids
  /\ removal = NoRemoval
  /\ message = NoVerdict
  /\ scenario = NoScenario
  /\ \E c \in Answers, o \in Answers :
       listing = [NoListing EXCEPT !.containers = c, !.objects = o]

\* lines 125-187: populate_ou for a unit that is not cached
PopulateOu ==
  /\ ~listing.cached
  /\ listing' = [listing EXCEPT
                   !.children = BuildDirectChildren(listing.containers)
                                  \o AddLeaves(listing.objects),
                   !.cache = listing.objects,
                   !.cached = TRUE,
                   !.shown = "first"]
  /\ UNCHANGED <<Components, order, kids, removal, message, scenario>>

\* lines 128-130 and 193-221: populate_ou for a cached unit
PopulateFromCache ==
  /\ listing.cached
  /\ listing' = [listing EXCEPT
                   !.children = BuildDirectChildren(listing.containers)
                                  \o AddLeaves(listing.cache),
                   !.shown = "cache"]
  /\ UNCHANGED <<Components, order, kids, removal, message, scenario>>

\* lines 223-281: _populate_ou_fresh
PopulateOuFresh ==
  /\ listing.shown # "none"
  /\ listing' = [listing EXCEPT
                   !.children = BuildDirectChildren(listing.containers)
                                  \o AddLeaves(listing.objects),
                   !.cache = listing.objects,
                   !.cached = TRUE,
                   !.shown = "fresh"]
  /\ UNCHANGED <<Components, order, kids, removal, message, scenario>>

\* the directory returns the same entries in another order the next time
ServerReorders ==
  /\ listing.shown # "none"
  /\ \E c \in Reordered(listing.containers), o \in Reordered(listing.objects) :
       /\ <<c, o>> # <<listing.containers, listing.objects>>
       /\ listing' = [listing EXCEPT !.containers = c, !.objects = o]
  /\ UNCHANGED <<Components, order, kids, removal, message, scenario>>

NextListing ==
  \/ PopulateOu
  \/ PopulateFromCache
  \/ PopulateOuFresh
  \/ ServerReorders

SpecListing == InitListing /\ [][NextListing]_vars

\* ------------------------------------------- a scenario from Connected
\* One manager that is Connected with _retry_count 0, its health check armed
\* and one subscriber registered. Its timer callbacks run one after the other,
\* each to its end (the delays are a second or more and the callbacks take no
\* time); which timer fires next and what the server answers is open. The
\* record keeps the delays passed to threading.Timer, the states the
\* subscriber was called with and the server's answers. Binds fail for
\* transient reasons only.
InitScenario ==
  /\ Fresh
  /\ streak = -1
  /\ backoff = NoBackoff
  /\ notify = NoNotify
  /\ tree = NoTree
  /\ order = NoOrder
  /\ kids = NoKids
  /\ removal = NoRemoval
  /\ listing = NoListing
  /\ message = NoVerdict
  /\ \E i \in 1..MaxInitialDelay, c \in {MaxDelayCap, MaxRetryDelay},
        r \in 1..BackoffRetries :
       scenario = [NoScenario EXCEPT !.state = "connected", !.health = TRUE,
                                     !.handle = TRUE, !.maxRetries = r,
                                     !.initial = i, !.maxDelay = c]

\* lines 79-99: _set_state, which calls the subscriber every time
ScSetState(sc, new) == [sc EXCEPT !.state = new, !.told = Append(@, new)]

\* lines 231-252: _schedule_reconnect
ScScheduleReconnect(sc) ==
  IF sc.rc >= sc.maxRetries
  THEN ScSetState(sc, "failed")
  ELSE [ScSetState(sc, "reconnecting") EXCEPT
          !.delays = Append(@, Delay(sc.initial, sc.rc, sc.maxDelay)),
          !.rc = @ + 1,
          !.timers = @ + 1]

\* a health check that acts on the probe's answer in whatever state it is
ActsInAnyState(sc) == TRUE

ActsAlsoWhenConnected(sc) == TRUE

\* line 311: a healthy probe changes the state unless it is Connected
HealthyActs(sc) == sc.state # "connected"

\* line 317: a failed probe starts a reconnect if the state is Connected
FailedActs(sc) == sc.state = "connected"

\* lines 290-328: _health_check, with the probe's answer
ScHealthCheck ==
  /\ scenario.health
  /\ Len(scenario.outcomes) < MaxEvents
  /\ IF ~scenario.handle
     THEN scenario' = [scenario EXCEPT !.health = FALSE]
     ELSE \E ok \in BOOLEAN :
            LET seen == [scenario EXCEPT
                           !.outcomes = Append(@, IF ok THEN "probe_ok"
                                                  ELSE "probe_failed")]
            IN scenario' =
                 IF ok
                 THEN IF HealthyActs(seen)
                      THEN [ScSetState(seen, "connected") EXCEPT !.rc = 0]
                      ELSE seen
                 ELSE IF FailedActs(seen)
                      THEN ScScheduleReconnect(ScSetState(seen, "reconnecting"))
                      ELSE seen
  /\ UNCHANGED <<Components, order, kids, removal, listing, message>>

\* lines 254-288: _reconnect, with the bind's answer
ScReconnect ==
  /\ scenario.timers > 0
  /\ Len(scenario.outcomes) < MaxEvents
  /\ \E ok \in BOOLEAN :
       LET fired == [scenario EXCEPT
                       !.timers = @ - 1,
                       !.outcomes = Append(@, IF ok THEN "bind_ok"
                                              ELSE "bind_failed")]
       IN scenario' =
            IF ok
            THEN [ScSetState(fired, "connected") EXCEPT
                    !.handle = TRUE, !.rc = 0, !.health = TRUE]
            ELSE ScScheduleReconnect([fired EXCEPT !.handle = FALSE])
  /\ UNCHANGED <<Components, order, kids, removal, listing, message>>

NextScenario == ScHealthCheck \/ ScReconnect

SpecScenario == InitScenario /\ [][NextScenario]_vars

\* ------------------------------------------- _is_authentication_error
\* words of the errors a bind can end with
Vocabulary ==
  { "Invalid", "credentials", "bind", "failed", "timeout", "port", "Code",
    "49", "1049", "389" }

Messages == UNION {[1..n -> Vocabulary] : n \in 0..MaxWords}

InitClassify ==
  /\ Fresh
  /\ streak = -1
  /\ backoff = NoBackoff
  /\ notify = NoNotify
  /\ tree = NoTree
  /\ order = NoOrder
  /\ kids = NoKids
  /\ removal = NoRemoval
  /\ listing = NoListing
  /\ scenario = NoScenario
  /\ \E m \in Messages : message = [NoVerdict EXCEPT !.text = m]

\* lines 166-201: the verdict on a message; lines 221-229 and 281-288 report
\* the one and retry after the other
Classify ==
  /\ message.verdict = "none"
  /\ message' = [message EXCEPT
                   !.verdict = IF IsAuthenticationError(message.text)
                               THEN "authentication" ELSE "transient"]
  /\ UNCHANGED <<Components, order, kids, removal, listing, scenario>>

NextClassify == Classify

SpecClassify == InitClassify /\ [][NextClassify]_vars

\* ------------------------------------------- _set_state from two threads
\* The health check, the reconnect timers and the callers of get_connection
\* and close() all call _set_state, each on its own thread. Here NumNotifiers
\* threads make MaxTransitions transitions between them, with 0 to
\* MaxCallbacks callbacks registered; every callback asks get_state() when it
\* is called. assigned lists the values given to _state in the order of the
\* assignments, delivered the calls of the callbacks in the order they were
\* made.
InitOrder ==
  /\ Fresh
  /\ streak = -1
  /\ backoff = NoBackoff
  /\ notify = NoNotify
  /\ tree = NoTree
  /\ removal = NoRemoval
  /\ listing = NoListing
  /\ message = NoVerdict
  /\ scenario = NoScenario
  /\ kids = NoKids
  /\ \E n \in 0..MaxCallbacks : order = [NoOrder EXCEPT !.callbacks = n]

Started == Len(order.assigned) + Cardinality({t \in Notifiers : order.th[t].pos = "locked"})

\* a _set_state that would call the callbacks inside `with self._state_lock`
LockKeptForLoop(t) == t

\* lines 86-92: the with block ends before the loop over the callbacks
LockAfterAssign(t) == 0

\* line 86: `with self._state_lock` is entered
OrLock(t) ==
  /\ order.th[t].pos \in {"idle", "done"}
  /\ Started < MaxTransitions
  /\ order.lock = 0
  /\ \E tr \in Transitions :
       order' = [order EXCEPT
                   !.lock = t,
                   !.th[t] = [ pos |-> "locked", new |-> tr[1], err |-> tr[2],
                               i |-> 0, calls |-> << >> ]]
  /\ UNCHANGED <<Components, removal, listing, message, scenario, kids>>

\* lines 87-89: _state and _last_error are assigned, and the lock released
OrAssign(t) ==
  /\ order.th[t].pos = "locked"
  /\ order' = [order EXCEPT
                 !.state = order.th[t].new,
                 !.error = order.th[t].err,
                 !.assigned = Append(@, <<order.th[t].new, order.th[t].err>>),
                 !.lock = LockAfterAssign(t),
                 !.th[t].pos = "loop"]
  /\ UNCHANGED <<Components, removal, listing, message, scenario, kids>>

\* lines 95-97: callback(new_state, error) for the next callback of the list
OrInvoke(t) ==
  /\ order.th[t].pos = "loop"
  /\ order.th[t].i < order.callbacks
  /\ LET k == order.th[t].i + 1
         call == <<k, order.th[t].new, order.th[t].err>>
     IN order' = [order EXCEPT
                    !.delivered = Append(@, call),
                    !.th[t].calls = Append(@, call),
                    !.th[t].pos = "in_cb"]
  /\ UNCHANGED <<Components, removal, listing, message, scenario, kids>>

\* lines 125-141: the callback's get_state() takes the state lock, reads and
\* releases it; the callback returns
OrCallbackReads(t) ==
  /\ order.th[t].pos = "in_cb"
  /\ order.lock = 0
  /\ order' = [order EXCEPT !.th[t].pos = "loop", !.th[t].i = @ + 1]
  /\ UNCHANGED <<Components, removal, listing, message, scenario, kids>>

\* the loop is over
OrReturn(t) ==
  /\ order.th[t].pos = "loop"
  /\ order.th[t].i = order.callbacks
  /\ order' = [order EXCEPT !.th[t].pos = "done"]
  /\ UNCHANGED <<Components, removal, listing, message, scenario, kids>>

NextOrder ==
  \E t \in Notifiers :
    \/ OrLock(t)
    \/ OrAssign(t)
    \/ OrInvoke(t)
    \/ OrCallbackReads(t)
    \/ OrReturn(t)

SpecOrder == InitOrder /\ [][NextOrder]_vars

\* ------------------------------------------------ the children of one unit
\* One unit below the base DN with up to NumObjects objects in it. The
\* handlers of the user interface run one at a time on its thread
\* (ensure_node_loaded and the refreshes populate on that thread; build_tree
\* arrives there through call_from_thread); on_tree_node_expanded starts a
\* thread of its own, which runs beside them. The sub-containers that
\* _build_direct_children adds are left out: only the leaves are followed.
Objects == 1..NumObjects

\* conn.entries of the object search: the objects in the directory
RECURSIVE Listed(_)
Listed(S) ==
  IF S = {} THEN << >>
  ELSE LET x == CHOOSE y \in S : \A z \in S : y <= z
       IN <<x>> \o Listed(S \ {x})

InitKids ==
  /\ Fresh
  /\ streak = -1
  /\ backoff = NoBackoff
  /\ notify = NoNotify
  /\ tree = NoTree
  /\ removal = NoRemoval
  /\ listing = NoListing
  /\ message = NoVerdict
  /\ scenario = NoScenario
  /\ order = NoOrder
  /\ \E S \in SUBSET Objects : kids = [NoKids EXCEPT !.server = S, !.present = TRUE]

KdUiFree == kids.job[UiThread].pos = "none"
KdMore == kids.handled < MaxHandlers

\* a handler of the user interface ran
Handled(k, name) == [k EXCEPT !.last = name, !.handled = @ + 1]

\* the call populate_ou(node, dn), or _populate_ou_fresh(node, dn), begins
Populate(start) == [ pos |-> start, todo |-> << >>, onNode |-> TRUE, tries |-> 0 ]

\* lines 105-111: on_tree_node_expanded
KdExpand(w) ==
  /\ KdUiFree /\ KdMore
  /\ kids.present
  /\ w # UiThread
  /\ IF ~kids.loaded
     THEN /\ kids.job[w].pos = "none"
          /\ kids' = [Handled(kids, "expand") EXCEPT
                        !.loaded = TRUE, !.attempted = TRUE,
                        !.job[w] = Populate("check")]
     ELSE kids' = Handled(kids, "expand")
  /\ UNCHANGED <<Components, removal, listing, message, scenario, order>>

\* lines 113-123: ensure_node_loaded
KdEnsureLoaded ==
  /\ KdUiFree /\ KdMore
  /\ kids.present
  /\ IF ~kids.loaded
     THEN kids' = [Handled(kids, "ensure") EXCEPT
                     !.loaded = TRUE, !.attempted = TRUE,
                     !.job[UiThread] = Populate("check")]
     ELSE kids' = Handled(kids, "ensure")
  /\ UNCHANGED <<Components, removal, listing, message, scenario, order>>

\* lines 283-322: refresh_current_ou, refresh_ou_by_dn
KdRefresh ==
  /\ KdUiFree /\ KdMore
  /\ kids.present
  /\ kids' = [Handled(kids, "refresh") EXCEPT
                !.cached = FALSE, !.cache = << >>, !.loaded = FALSE,
                !.shown = << >>, !.attempted = TRUE,
                !.job[UiThread] = Populate("conn")]
  /\ UNCHANGED <<Components, removal, listing, message, scenario, order>>

\* adtui.py 884-905 and adtree.py 338-380: delete_object deletes the object
\* in the directory and remove_node_by_dn takes the first node with its DN
\* out of the tree
KdRemove(x) ==
  /\ KdUiFree /\ KdMore
  /\ \E k \in 1..Len(kids.shown) :
       /\ kids.shown[k] = x
       /\ \A m \in 1..(k - 1) : kids.shown[m] # x
       /\ kids' = [Handled(kids, "remove") EXCEPT
                     !.server = @ \ {x},
                     !.shown = Without(kids.shown, k),
                     !.removed = @ \cup {x}]
  /\ UNCHANGED <<Components, removal, listing, message, scenario, order>>

\* adtui.py 476-500 and adtree.py 27-44: build_tree on a Connected
\* notification removes every node and adds a new node for each unit its
\* search returns, none if the search fails; the populate calls under way
\* keep the node they were given
KdBuildTree ==
  /\ KdUiFree /\ KdMore
  /\ \E found \in BOOLEAN :
       kids' = [Handled(kids, "build") EXCEPT
                  !.present = found, !.shown = << >>, !.attempted = FALSE,
                  !.job = [w \in Populators |-> [kids.job[w] EXCEPT !.onNode = FALSE]]]
  /\ UNCHANGED <<Components, removal, listing, message, scenario, order>>

\* somebody creates the object in the directory again
KdServerAdds(x) ==
  /\ KdMore
  /\ x \notin kids.server
  /\ kids' = [kids EXCEPT !.server = @ \cup {x}, !.handled = @ + 1]
  /\ UNCHANGED <<Components, removal, listing, message, scenario, order>>

\* parent_node.remove_children() and parent_node.add_leaf(...) act on the
\* node the call was given
ShownAfterClear(j) == IF j.onNode THEN << >> ELSE kids.shown
ShownAfterAdd(j) == IF j.onNode THEN Append(kids.shown, Head(j.todo)) ELSE kids.shown

\* One step of the populate call of thread w. populate_ou looks into
\* ou_cache (line 129); _populate_from_cache clears the node and adds the
\* cached objects (lines 193-221); otherwise execute_with_retry gets a
\* connection or raises, and populate_op clears the node, searches, caches
\* the objects found and adds them (lines 133-177), again from the start
\* when the search raised, until the third failure.
KdStep(w) ==
  /\ kids.job[w].pos \notin {"none", "done"}
  /\ LET j == kids.job[w] IN
     CASE j.pos = "check" ->
            kids' = [kids EXCEPT
                       !.job[w].pos = IF kids.cached THEN "cache_clear" ELSE "conn"]
       [] j.pos = "cache_clear" ->
            kids' = [kids EXCEPT
                       !.shown = ShownAfterClear(j),
                       !.job[w].todo = kids.cache,
                       !.job[w].pos = "add"]
       [] j.pos = "conn" ->
            \E avail \in BOOLEAN :
              kids' = [kids EXCEPT !.job[w].pos = IF avail THEN "clear" ELSE "done"]
       [] j.pos = "clear" ->
            kids' = [kids EXCEPT !.shown = ShownAfterClear(j), !.job[w].pos = "search"]
       [] j.pos = "search" ->
            \E ok \in BOOLEAN :
              IF ok
              THEN kids' = [kids EXCEPT
                              !.cached = TRUE,
                              !.cache = Listed(kids.server),
                              !.removed = @ \ kids.server,
                              !.job[w].todo = Listed(kids.server),
                              !.job[w].pos = "add"]
              ELSE kids' = [kids EXCEPT
                              !.job[w].tries = @ + 1,
                              !.job[w].pos =
                                 IF OperationRetriesExhausted(j.tries + 1)
                                 THEN "done" ELSE "conn"]
       [] j.pos = "add" ->
            IF j.todo = << >>
            THEN kids' = [kids EXCEPT !.job[w].pos = "done"]
            ELSE kids' = [kids EXCEPT
                            !.shown = ShownAfterAdd(j),
                            !.job[w].todo = Tail(@)]
  /\ UNCHANGED <<Components, removal, listing, message, scenario, order>>

\* the call returns: the expand thread ends, the handler of the user
\* interface returns
KdEnd(w) ==
  /\ kids.job[w].pos = "done"
  /\ kids' = [kids EXCEPT !.job[w] = NoPopulate]
  /\ UNCHANGED <<Components, removal, listing, message, scenario, order>>

NextKids ==
  \/ KdEnsureLoaded
  \/ KdRefresh
  \/ KdBuildTree
  \/ \E x \in Objects : KdRemove(x) \/ KdServerAdds(x)
  \/ \E w \in Populators : KdExpand(w) \/ KdStep(w) \/ KdEnd(w)

SpecKids == InitKids /\ [][NextKids]_vars

\* =================================================================== claims
\* the errors of op that the classifier takes for a credential failure, and
\* those it takes for transient
AuthOpErrors == {CredMsg}
TransientOpErrors == {TimeoutMsg, BusyMsg}

\* t's call of execute_with_retry has ended
Ended(t) == pc[t] = "call_done" /\ loc[t].result # "none"

\* C1: in every call of execute_with_retry in which an invocation of op
\* raises a credential failure (on any attempt), the auth-failure callback is
\* invoked exactly once by that call, op is not invoked after the failure,
\* and the call ends by raising "Authentication failed: <the error>".
C1_AuthFailureEndsCall ==
  \A t \in Callers :
    loc[t].lastErr \in AuthOpErrors =>
      /\ pc[t] \in {"auth_cb", "ewr_raise_auth", "call_done"}
      /\ loc[t].opCalls = loc[t].retries
      /\ loc[t].cbCalls = (IF pc[t] = "auth_cb" THEN 0 ELSE 1)
      /\ pc[t] = "call_done" =>
           /\ loc[t].result = "raised"
           /\ loc[t].raised = AuthPrefix \o loc[t].lastErr

\* a call has ended on a credential failure of its third attempt
C1_Witness ==
  \E t \in Callers :
    /\ Ended(t)
    /\ loc[t].lastErr \in AuthOpErrors
    /\ loc[t].retries = MaxOperationRetries
    /\ loc[t].cbCalls = 1

\* every invocation of op in t's ended call failed with a transient error
AllTransient(t) ==
  /\ Ended(t)
  /\ loc[t].result = "raised"
  /\ loc[t].opCalls >= 1
  /\ loc[t].opCalls = loc[t].retries
  /\ loc[t].lastErr \notin AuthOpErrors

\* op is never invoked more than 3 times, and a call that returns does so at
\* the first invocation that succeeds
AtMostThreeAndFirstSuccess ==
  \A t \in Callers :
    /\ loc[t].opCalls <= MaxOperationRetries
    /\ loc[t].retries <= loc[t].opCalls
    /\ (Ended(t) /\ loc[t].result = "returned") =>
         loc[t].opCalls = loc[t].retries + 1

\* C2 as stated: no call invokes op more than 3 times, a call returns at the
\* first successful invocation, and when every invocation fails with a
\* transient error op is invoked exactly 3 times and the third error is
\* raised.
C2_AsStated ==
  /\ AtMostThreeAndFirstSuccess
  /\ \A t \in Callers :
       AllTransient(t) =>
         /\ loc[t].opCalls = MaxOperationRetries
         /\ loc[t].raised = loc[t].lastErr
         /\ loc[t].raised \in TransientOpErrors

\* C2: no call of execute_with_retry invokes op more than 3 times, a call
\* returns at the first successful invocation, and when every invocation
\* fails with a transient error and get_connection yielded a connection at
\* the start of every attempt, op is invoked exactly 3 times and the error of
\* the third invocation is raised.
C2_ThreeAttempts ==
  /\ AtMostThreeAndFirstSuccess
  /\ \A t \in Callers :
       (AllTransient(t) /\ ~loc[t].gotNone) =>
         /\ loc[t].opCalls = MaxOperationRetries
         /\ loc[t].raised = loc[t].lastErr
         /\ loc[t].raised \in TransientOpErrors

\* a call has ended after three transient failures of op
C2_Witness ==
  \E t \in Callers :
    /\ AllTransient(t)
    /\ ~loc[t].gotNone
    /\ loc[t].opCalls = MaxOperationRetries
    /\ loc[t].raised \in TransientOpErrors

\* C3: when get_connection yields None at the start of an attempt of
\* execute_with_retry (the first or a retry), the call raises "No connection
\* available" at once: op is not invoked in that attempt and there is no
\* further attempt.
C3_NoConnectionFailsAtOnce ==
  \A t \in Callers :
    loc[t].gotNone =>
      /\ pc[t] = "call_done"
      /\ loc[t].result = "raised"
      /\ loc[t].raised = NoConnectionMsg
      /\ loc[t].opCalls = loc[t].retries

\* a call has ended without a connection at its third attempt
C3_Witness ==
  \E t \in Callers :
    /\ Ended(t)
    /\ loc[t].gotNone
    /\ loc[t].retries = MaxOperationRetries - 1

\* C4: in every run with fewer than max_retries consecutive transient bind
\* or probe failures, and fair timers, the manager eventually reaches
\* Connected, and no thread ever comes to invoke the auth-failure callback.
C4_EventuallyConnected ==
  /\ <>(state = CONNECTED)
  /\ [](~authReported /\ \A t \in Threads : pc[t] # "auth_cb")

\* a reconnect has bound and set Connected after max_retries - 1 failures
C4_Witness ==
  \E t \in ReconnectThreads :
    /\ pc[t] = "rc_reset"
    /\ state = CONNECTED
    /\ retryCount = MaxRetries - 1
    /\ ~authReported

\* C5: a reconnect whose bind succeeds after close() has returned stores no
\* handle and does not make the state Connected.
C5_LateReconnectIgnored ==
  \A t \in ReconnectThreads :
    loc[t].late => (connection = NoConn /\ state # CONNECTED)

\* C6: once close() has returned, no step arms a health-check timer or a
\* reconnect timer.
C6_NoTimerArmedAfterClose ==
  [][closed = "returned" =>
       /\ pendingReconnect' <= pendingReconnect
       /\ HealthPending' <= HealthPending]_vars

\* C7: at most one reconnect timer is waiting at any time (stated for the
\* runs without close()).
C7_OneReconnectTimer == closed = "no" => pendingReconnect <= 1

\* C8: when the bind of _connect has failed with a credential failure, the
\* auth-failure callback has been invoked.
C8_ConnectAuthFailureReported == lastError = ConnectFailed => authReported

\* C9: a health check that begins after the auth-failure callback was
\* invoked does not call _schedule_reconnect.
C9_NoReconnectAfterAuthFailure ==
  \A t \in HealthThreads :
    loc[t].sinceAuth =>
      pc[t] \notin {"sr_check", "sr_increment", "sr_set_reconnecting", "sr_arm"}

\* C10: the auth-failure callback is not invoked once it has been invoked.
C10_CallbackInvokedAtMostOnce ==
  [][~ /\ authReported
       /\ authCallback
       /\ \E t \in Threads : pc[t] = "auth_cb" /\ pc'[t] # "auth_cb"]_vars

C12_FailedUntilClose ==
  [][(state = FAILED /\ lastError = MaxRetriesExceeded /\ closed = "no")
       => state' = FAILED]_vars

\* C13: a get_connection() that returns while the state is CONNECTED returns
\* the live handle, never None (close() not having been called).
C13_ConnectedYieldsHandle ==
  [][\A t \in Callers :
       (/\ pc[t] = "gc_ret_conn" /\ pc'[t] # "gc_ret_conn"
        /\ state = CONNECTED /\ closed = "no")
         => loc'[t].conn = Handle]_vars

\* C14: a get_connection() that has read the state CONNECTED returns,
\* whatever the other threads do with the connection lock.
C14_GetConnectionReturns ==
  \A t \in Callers : (pc[t] = "gc_ret_conn") ~> (pc[t] # "gc_ret_conn")

\* C15: while an operation of execute_with_retry runs on the handle that
\* get_connection gave it, no health-check probe runs on the handle.
C15_HandleUsedByOne ==
  \A t \in Callers :
    (pc[t] = "ewr_op" /\ loc[t].conn = Handle)
      => \A h \in HealthThreads : ~(pc[h] = "hc_probing" /\ connection = Handle)

\* C16: the connection lock is free while a bind or a probe search is in
\* progress.
C16_NoLockAcrossRemoteCall ==
  \A t \in Timers : pc[t] \in {"rc_binding", "hc_probing"} => connLock # t

\* C17: a state-change callback that raises stops nothing: the state has the
\* new value while and after the callbacks are notified, every registered
\* callback has been invoked when _set_state returns, and neither _set_state
\* nor _trigger_auth_failure lets the exception reach the calling thread.
C17_CallbacksIsolated ==
  /\ notify.pos # "raised"
  /\ notify.pos \in {"loop", "returned"} => state = notify.target
  /\ notify.pos = "returned" => notify.invoked = 1..Len(notify.callbacks)

\* _set_state has returned although the first of two callbacks raised, after
\* a raising auth-failure callback
C17_Witness ==
  /\ notify.pos = "returned"
  /\ Len(notify.callbacks) = 2
  /\ notify.callbacks[1] = Raises
  /\ 2 \in notify.invoked
  /\ notify.authRaised

TreeAtRest == UiFree /\ \A d \in Dns : tree.job[d].pos = "none"

\* C19: whenever no operation of the tree is in progress, a DN is in
\* loaded_ous if and only if ou_cache holds an entry for it.
C19_LoadedIffCached == TreeAtRest => tree.loaded = tree.cache

\* C20: once a unit has been expanded again, with no refresh since its first
\* expansion, whose fetch had a connection, its children are there to be
\* rendered from ou_cache.
C20_SecondExpandFromCache ==
  \A d \in Dns :
    (TreeAtRest /\ tree.again[d] /\ tree.fetched[d] \in {"ok", "failed"})
      => d \in tree.cache

C22_FailedFetchChangesNothing ==
  (tree.ui.kind = "fresh" /\ tree.ui.pos \in {"done_failed", "done_noconn"}) =>
    /\ (tree.ui.dn \in tree.cache) = tree.ui.wasCached
    /\ (tree.ui.dn \in tree.loaded) = tree.ui.wasLoaded

\* C23: remove_node_by_dn for the DN of a child takes that child out of the
\* tree, returns True and selects the child's next sibling, else its previous
\* sibling, else the parent; for a DN no node has it returns False and
\* changes neither the children nor the selection.
C23_RemoveSelects ==
  LET was == removal.before
      d == removal.dn
      Kept(x) == x # d
  IN /\ removal.returned = "true" =>
          /\ d \in Range(was)
          /\ removal.siblings = SelectSeq(was, Kept)
          /\ \E k \in 1..Len(was) :
               /\ was[k] = d
               /\ removal.cursor =
                    IF k + 1 <= Len(was) THEN was[k + 1]
                    ELSE IF k - 1 >= 1 THEN was[k - 1]
                    ELSE Parent
     /\ removal.returned = "false" =>
          /\ d \notin Range(was)
          /\ removal.siblings = was
          /\ removal.cursor = removal.cursorBefore

\* the last of several children was removed and the one before it selected
C23_Witness ==
  /\ removal.returned = "true"
  /\ Len(removal.before) >= 2
  /\ removal.before[Len(removal.before)] = removal.dn
  /\ removal.cursor = removal.before[Len(removal.before) - 1]
  /\ removal.cursorBefore = removal.dn

\* C24: after every population of a node (first expand, from the cache,
\* refresh) all containers come before all leaves, each of the two groups is
\* in ascending case-insensitive order of name, and the order of the
\* children does not depend on the order in which the searches returned the
\* entries.
C24_ChildrenOrdered ==
  listing.shown # "none" =>
    LET ch == listing.children
    IN /\ \A a, b \in 1..Len(ch) :
            a < b =>
              /\ ~(ch[a].type = "leaf" /\ ch[b].type = "container")
              /\ ch[a].type = ch[b].type => ch[a].name.letter <= ch[b].name.letter
       /\ \A c \in Reordered(listing.containers), o \in Reordered(listing.objects) :
            ch = BuildDirectChildren(c) \o AddLeaves(o)

\* C25: from Connected with _retry_count 0, initial delay 1 and maximal
\* delay 60, when the health check's probe fails, the next two reconnect
\* attempts fail and the one after them succeeds, the delays scheduled are
\* 1, 2, 4, the subscriber was told Reconnecting, Reconnecting, Reconnecting,
\* Connected and nothing else, and _retry_count is 0.
C25_ScenarioAsStated ==
  ( /\ scenario.initial = InitialRetryDelay
    /\ scenario.maxDelay = MaxRetryDelay
    /\ scenario.outcomes = <<"probe_failed", "bind_failed", "bind_failed", "bind_ok">> )
  => /\ scenario.delays = <<1, 2, 4>>
     /\ scenario.told = <<"reconnecting", "reconnecting", "reconnecting", "connected">>
     /\ scenario.rc = 0
     /\ scenario.state = "connected"

\* C26: the classifier calls a message an authentication failure if and only
\* if it contains, whatever the case, one of the fixed phrases or the status
\* code 49; every other message, the empty one and those with other numbers
\* in them included, is transient.
C26_ClassifierIff ==
  LET m == message.text
      HasPhrase == \E ind \in auth_indicators : Contains(ind, LowerMsg(m))
      HasStatusCode == \E i \in 1..Len(m) : m[i] = "49"
  IN message.verdict # "none" =>
       /\ message.verdict = "authentication" <=> (HasPhrase \/ HasStatusCode)
       /\ m = NoMsg => message.verdict = "transient"

\* C27: when a successful bind's path has run to its end with no other
\* thread acting meanwhile - the constructor's _connect, or a reconnect from
\* the bind to the end of _start_health_check - the state is Connected,
\* _retry_count is 0, the handle is present and a health check is pending.
C27_BindPostcondition ==
  [][ LET Post == /\ state' = CONNECTED
                  /\ retryCount' = 0
                  /\ connection' = Handle
                  /\ healthCheckTimer' = WaitingTimer
      IN /\ (pc[Main] = "new" /\ pc'[Main] = "constructed" /\ connection' # NoConn)
              => Post
         /\ \A t \in ReconnectThreads :
              (pc[t] = "shc_start" /\ pc'[t] # "shc_start") => Post ]_vars

\* a reconnect that bound after a failure is at the last statement of its
\* success path
C27_Witness ==
  \E t \in ReconnectThreads :
    /\ pc[t] = "shc_start"
    /\ state = CONNECTED
    /\ connection = Handle
    /\ retryCount = 0
    /\ stopHealthCheck

\* the answer the server gave in this step, if it gave one
Answered(what) ==
  /\ Len(scenario'.outcomes) = Len(scenario.outcomes) + 1
  /\ scenario'.outcomes[Len(scenario'.outcomes)] = what

\* C28: a health check whose probe fails while the state is Connected sets
\* the state to Reconnecting, telling the subscriber, and calls
\* _schedule_reconnect, which arms a reconnect timer or, with the retries
\* used up, ends in Failed; one whose probe fails in another state changes
\* neither the state nor _retry_count and arms no reconnect timer.
C28_ProbeFailure ==
  [][ Answered("probe_failed") =>
        IF scenario.state = "connected"
        THEN /\ Len(scenario'.told) = Len(scenario.told) + 2
             /\ scenario'.told[Len(scenario.told) + 1] = "reconnecting"
             /\ \/ /\ scenario.rc < scenario.maxRetries
                    /\ scenario'.state = "reconnecting"
                    /\ scenario'.rc = scenario.rc + 1
                    /\ scenario'.timers = scenario.timers + 1
                \/ /\ scenario.rc >= scenario.maxRetries
                    /\ scenario'.state = "failed"
                    /\ scenario'.timers = scenario.timers
        ELSE /\ scenario'.state = scenario.state
             /\ scenario'.rc = scenario.rc
             /\ scenario'.timers = scenario.timers
             /\ scenario'.delays = scenario.delays
             /\ scenario'.told = scenario.told ]_vars

\* the probe failed twice: the first failure scheduled a reconnect, the
\* second, in Reconnecting, did nothing
C28_Witness ==
  /\ scenario.outcomes = <<"probe_failed", "probe_failed">>
  /\ scenario.state = "reconnecting"
  /\ scenario.told = <<"reconnecting", "reconnecting">>
  /\ scenario.timers = 1
  /\ scenario.rc = 1

\* C29: a health check whose probe succeeds while the state is not Connected
\* sets the state to Connected and _retry_count to 0; one whose probe
\* succeeds while the state is Connected changes neither and calls no
\* subscriber.
C29_ProbeSuccess ==
  [][ Answered("probe_ok") =>
        IF scenario.state # "connected"
        THEN /\ scenario'.state = "connected"
             /\ scenario'.rc = 0
        ELSE /\ scenario'.state = scenario.state
             /\ scenario'.rc = scenario.rc
             /\ scenario'.told = scenario.told ]_vars

\* a healthy probe in Reconnecting made the manager Connected, and the next
\* healthy probe told the subscriber nothing
C29_Witness ==
  /\ scenario.outcomes = <<"probe_failed", "probe_ok", "probe_ok">>
  /\ scenario.told = <<"reconnecting", "reconnecting", "connected">>
  /\ scenario.state = "connected"
  /\ scenario.rc = 0

\* C30: a health check that found the stop flag clear, in a manager that
\* nobody closes or restarts meanwhile, ends by arming the next health-check
\* timer, whatever the probe answered and with or without a handle; a health
\* check that finds the stop flag set arms nothing.
C30_HealthCheckRearms ==
  [][ /\ \A t \in HealthThreads :
           (pc[t] # "free" /\ pc'[t] = "free" /\ closed = "no" /\ ~stopHealthCheck)
             => (pc[t] = "hc_rearm" /\ healthCheckTimer' = WaitingTimer)
      /\ (pc' = pc /\ stopHealthCheck)
           => /\ orphanHealth' <= orphanHealth
              /\ healthCheckTimer' = WaitingTimer => healthCheckTimer = WaitingTimer
    ]_vars

\* C34: _retry_count never exceeds max_retries, whichever threads call
\* _schedule_reconnect and however their steps interleave (in a manager that
\* nobody has closed).
C34_RetryCountBounded == closed = "no" => retryCount <= MaxRetries

\* C35: with the state Connected, no close() called and no timer callback
\* under way, the manager holds a handle, so a get_connection() that
\* observes Connected returns one.
C35_ConnectedHasHandle ==
  (state = CONNECTED /\ closed = "no" /\ \A t \in Timers : pc[t] = Home(t))
    => connection = Handle

\* a thread is inside _schedule_reconnect or _reconnect
Reconnecting(t) ==
  \/ pc[t] \in {"sr_check", "sr_increment", "sr_set_reconnecting", "sr_arm"}
  \/ t \in ReconnectThreads /\ pc[t] # Home(t)

\* C36: whenever the state is Reconnecting (and nobody has closed the
\* manager) a reconnect timer is waiting or a thread is inside
\* _schedule_reconnect or _reconnect, so that the state will be left.
C36_ReconnectingNotDeadEnd ==
  (state = RECONNECTING /\ closed = "no")
    => (pendingReconnect > 0 \/ \E t \in Threads : Reconnecting(t))

\* C37: at most one health-check timer is waiting, also when
\* _start_health_check runs while a health check is between its probe and
\* its re-arming.
C37_OneHealthTimer == closed = "no" => HealthPending <= 1

\* C31: a transition calls every registered callback once, in the order of
\* registration, with the state and the error of that transition, and the
\* state lock is not held by the notifying thread meanwhile: a callback that
\* calls get_state() finds the lock free or held by a thread that is about
\* to release it.
C31_EachCallbackOnce ==
  \A t \in Notifiers :
    LET me == order.th[t] IN
    /\ me.pos \in {"loop", "in_cb", "done"} =>
         /\ \A j \in 1..Len(me.calls) : me.calls[j] = <<j, me.new, me.err>>
         /\ Len(me.calls) = me.i + (IF me.pos = "in_cb" THEN 1 ELSE 0)
    /\ me.pos = "done" => Len(me.calls) = order.callbacks
    /\ me.pos = "in_cb" =>
         /\ order.lock # t
         /\ order.lock # 0 => order.th[order.lock].pos = "locked"

\* a transition has called all MaxCallbacks callbacks while another thread
\* was inside _set_state as well
C31_Witness ==
  \E t, u \in Notifiers :
    /\ t # u
    /\ order.callbacks = MaxCallbacks
    /\ order.th[t].pos = "done"
    /\ Len(order.th[t].calls) = MaxCallbacks
    /\ order.th[u].pos = "in_cb"

\* what callback k was called with, in the order of the calls
DeliveredTo(k) ==
  LET IsForK(c) == c[1] = k
      mine == SelectSeq(order.delivered, IsForK)
  IN [j \in 1..Len(mine) |-> <<mine[j][2], mine[j][3]>>]

\* C38: when the transitions of concurrent threads have all completed, every
\* callback has been called with the states in the order in which _state was
\* assigned them, so that the state it was told last is the one get_state()
\* returns.
C38_DeliveredInAssignmentOrder ==
  (\A t \in Notifiers : order.th[t].pos \in {"idle", "done"})
    => \A k \in 1..order.callbacks :
         /\ DeliveredTo(k) = order.assigned
         /\ order.assigned # << >> =>
              DeliveredTo(k)[Len(DeliveredTo(k))][1] = order.state

\* C32: a refresh of a node, from its first statement to the return of
\* _populate_ou_fresh, leaves every other DN as it was in loaded_ous and in
\* ou_cache, and leaves the nodes outside the refreshed one in the tree.
C32_RefreshFrame ==
  [][ LET begins == tree.ui.pos = "none" /\ tree'.ui.kind = "fresh"
          goesOn == tree.ui.kind = "fresh" /\ tree'.ui # tree.ui
          d == IF begins THEN tree'.ui.dn ELSE tree.ui.dn
      IN (begins \/ goesOn) =>
           /\ \A e \in Dns \ {d} :
                /\ (e \in tree'.loaded) = (e \in tree.loaded)
                /\ (e \in tree'.cache) = (e \in tree.cache)
           /\ tree'.nodes = tree.nodes ]_vars

\* a refresh has fetched its unit while another unit was loaded and cached
C32_Witness ==
  /\ tree.ui.kind = "fresh"
  /\ tree.ui.pos = "done_ok"
  /\ \E e \in Dns \ {tree.ui.dn} : e \in tree.loaded /\ e \in tree.cache

\* C33: no two nodes of the tree carry the same DN, however build_tree, the
\* thread started by an expand, ensure_node_loaded and the refreshes
\* interleave.
C33_DnsUnique ==
  \A a, b \in 1..Len(kids.shown) : kids.shown[a] = kids.shown[b] => a = b

\* C39: a DN that remove_node_by_dn has removed is on no node of the tree
\* until a search returns it again; populating the parent from ou_cache does
\* not bring it back.
C39_RemovedStaysRemoved ==
  \A x \in kids.removed : \A a \in 1..Len(kids.shown) : kids.shown[a] # x

\* C40: when the last handler to run was an expand or an ensure_node_loaded
\* of a node of the tree, a populate call has been made for that node, also
\* after build_tree has rebuilt the tree.
C40_ExpandPopulatesAfterRebuild ==
  (kids.last \in {"expand", "ensure"} /\ kids.present) => kids.attempted

====
